---- MODULE Spec2Model ----
(***************************************************************************)
(* nova-ts: the filter algebra of src/src/index.ts (merge, combine) and    *)
(* the generation runs of src/src/generator.ts, src/src/schemaLoader.ts    *)
(* and src/src/resourceGenerator.ts.                                       *)
(*                                                                         *)
(* Filter objects live in a heap, as JavaScript objects do: an object is a *)
(* record whose fields are the keys it owns ($type is "type", $filter is   *)
(* "filter", ...), a reference is the object's index in the heap and 0 is  *)
(* undefined.  A key a filter does not own is a field the record does not  *)
(* have, so the key-presence tests of the source are tests on DOMAIN.      *)
(***************************************************************************)
EXTENDS Integers, Sequences, FiniteSets, TLC

VARIABLES
    heap0,      \* the heap when the call under test starts
    heap,       \* the heap now
    args,       \* references of the filters handed to the call
    operation,  \* the operation argument handed to merge
    fpc,        \* "input" before the call, then the name of the call made
    ret,        \* what the call returned: a reference
    ret2,       \* assoc: the reference of merge(A, merge(B, C))
    wraps,      \* how often the call reached the Join wrapping of line 135
    entry,      \* the entry point of the generation run
    srcKind,    \* what the source argument of the run is
    env,        \* the world of the run: loads, documents, file system
    gpc,        \* where the run is
    inTry,      \* inside the try block of generateResources
    doc,        \* the document generateNodes works on
    written,    \* the output files this run has written
    raised,     \* every error thrown so far: the error, the step, whether caught
    err,        \* the error that reached the caller of the entry point
    path,       \* the generation paths the run has started
    exitCode,   \* the exit code of the CLI, -1 while it runs
    options,    \* the Map of the ResourceOptionsManager singleton, in key order
    calls,      \* every setResourceOptions and clear made so far, and by whom
    rpc,        \* where each generateResources invocation is
    rdoc,       \* the resources each invocation finds in its document
    allSchemas, \* data.components.schemas: the entries in key order
    prop,       \* the property schema handed to jsonSchemaToTsType
    result,     \* what jsonSchemaToTsType returned or threw
    spc,        \* "input" before the synthesis call, "done" after it
    data,       \* the document handed to generate
    ogmSchemas, \* what the extraction of the document returned
    cleaned,    \* part_002: the schemas handed to compile, one per node
    output,     \* generate: the declarations appended to the output so far
    inext,      \* generate: the index of the next entity of the loop
    ipc,        \* where generate is
    lines,      \* deduplicateTypes: the lines of its argument
    lineNo,     \* deduplicateTypes: the loop variable i, counted from 1
    seenTypes,  \* deduplicateTypes: the Map of alias names to definitions
    seenInterfaces,         \* deduplicateTypes: the Set of interface names
    commonTypeDefinitions,  \* deduplicateTypes: the alias lines moved to the top
    nonCommonLines,         \* deduplicateTypes: the other lines that are kept
    deduped,    \* what deduplicateTypes returned: lines and newlines
    dpc,        \* where deduplicateTypes is
    tsLines,    \* inlineAliasTypes: ts.split('\n')
    aliasMap,   \* inlineAliasTypes: the Map of alias names to definitions
    contentLines,   \* inlineAliasTypes: the lines without the alias lines
    idx,        \* inlineAliasTypes: the loop variable, counted from 1
    inlined,    \* what inlineAliasTypes returned: lines and newlines
    npc,        \* where inlineAliasTypes is
    resource,   \* the resource entity whose pivot is resolved: name and schema
    pivot,      \* the pivotKey and pivotType resolved for it
    ppc,        \* which of the two resolutions was made
    adoc,       \* the OpenAPI document of an assembly: schema entries and routes
    resourceOptions, \* the Map extractResourceOptionsFromRoutes returns
    registered, \* the Map of the resourceOptionsManager singleton
    abstractTypes, \* the declarations generateAbstractResources returns
    apc,        \* where the assembly is
    candidate,  \* the options given to validateResourceOptions
    verdict,    \* what validateResourceOptions returned, or that it threw
    vpc         \* where the validation is

fvars == <<heap0, heap, args, operation, fpc, ret, ret2, wraps>>

gvars == <<entry, srcKind, env, gpc, inTry, doc, written, raised, err, path, exitCode>>

rvars == <<options, calls, rpc, rdoc>>

svars == <<allSchemas, prop, result, spc>>

ivars == <<data, ogmSchemas, cleaned, output, inext, ipc>>

dvars == <<lines, lineNo, seenTypes, seenInterfaces, commonTypeDefinitions, nonCommonLines,
           deduped, dpc>>

nvars == <<tsLines, aliasMap, contentLines, idx, inlined, npc>>

pvars == <<resource, pivot, ppc>>

avars == <<adoc, resourceOptions, registered, abstractTypes, apc>>

vvars == <<candidate, verdict, vpc>>

\* The variables of the resource passes.
xvars == <<pvars, avars, vvars>>

vars == <<fvars, gvars, rvars, svars, ivars, dvars, nvars, xvars>>

\* ------------------------------------------------------------ bounds
MaxClauses == 2

MaxKeys == 2

MaxArgs == 3

MaxEntities == 1

MaxRuns == 2

MaxCalls == 4

MaxStack == 6

MaxBranches == 2

MaxProps == 2

MaxDecls == 3

\* Schema entries and routes of an assembled document.
MaxEntries == 2

MaxRoutes == 2

\* ------------------------------------------------------------ filter values
\* A filter as a tree of values, the form a caller writes it in.
Undef == [undefined |-> TRUE]

IsUndef(v) == "undefined" \in DOMAIN v

EmptyObject == [k \in {} |-> 0]

NoFilter == [type |-> "empty"]

MatchV(f) == [type |-> "match", field |-> f, value |-> 1]

MatchEdgeV(f) == [type |-> "match_edge", field |-> f, value |-> 1]

JoinV(op, cl) == [type |-> "join", operation |-> op, clauses |-> cl]

ExistsV(k, f) == [type |-> "exists", key |-> k, filter |-> f]

ResourceV(f) == [filter |-> f]

SubresourceV(f, s) == [filter |-> f, subresources |-> s]

SubresourceOnlyV(s) == [subresources |-> s]

KeyNames == <<"p", "q", "r", "s">>

Keys == {KeyNames[i] : i \in 1..MaxKeys}

KeysInOrder(S) == SelectSeq(KeyNames, LAMBDA k : k \in S)

\* ------------------------------------------------------------ the heap
Get(o, k) == IF k \in DOMAIN o THEN o[k] ELSE 0

Alloc(h, o) == [heap |-> Append(h, o), ret |-> Len(h) + 1]

RECURSIVE Store(_, _)
RECURSIVE StoreSeq(_, _)
RECURSIVE StoreMap(_, _, _)

\* The object literal of value v, built bottom-up: clauses, $filter, $subresources.
Store(h, v) ==
    IF IsUndef(v) THEN [heap |-> h, ret |-> 0]
    ELSE LET c == IF "clauses" \in DOMAIN v THEN StoreSeq(h, v.clauses)
                  ELSE [heap |-> h, refs |-> <<>>]
             f == IF "filter" \in DOMAIN v THEN Store(c.heap, v.filter)
                  ELSE [heap |-> c.heap, ret |-> 0]
             s == IF "subresources" \in DOMAIN v /\ ~IsUndef(v.subresources)
                  THEN LET m == StoreMap(f.heap, v.subresources,
                                         KeysInOrder(DOMAIN v.subresources))
                       IN Alloc(m.heap, m.entries)
                  ELSE [heap |-> f.heap, ret |-> 0]
         IN Alloc(s.heap, [k \in DOMAIN v |->
                CASE k = "clauses" -> c.refs
                  [] k = "filter" -> f.ret
                  [] k = "subresources" -> s.ret
                  [] OTHER -> v[k]])

StoreSeq(h, vs) ==
    IF vs = <<>> THEN [heap |-> h, refs |-> <<>>]
    ELSE LET x == Store(h, Head(vs))
             r == StoreSeq(x.heap, Tail(vs))
         IN [heap |-> r.heap, refs |-> <<x.ret>> \o r.refs]

StoreMap(h, m, ks) ==
    IF ks = <<>> THEN [heap |-> h, entries |-> EmptyObject]
    ELSE LET x == Store(h, m[Head(ks)])
             r == StoreMap(x.heap, m, Tail(ks))
         IN [heap |-> r.heap, entries |-> (Head(ks) :> x.ret) @@ r.entries]

RECURSIVE Decode(_, _)

\* The value tree a reference denotes in heap h.
Decode(h, r) ==
    IF r = 0 THEN Undef
    ELSE LET o == h[r]
         IN [k \in DOMAIN o |->
                CASE k = "clauses" -> [i \in 1..Len(o.clauses) |-> Decode(h, o.clauses[i])]
                  [] k = "filter" -> Decode(h, o.filter)
                  [] k = "subresources" ->
                        IF o.subresources = 0 THEN Undef
                        ELSE [key \in DOMAIN h[o.subresources] |->
                                 Decode(h, h[o.subresources][key])]
                  [] OTHER -> o[k]]

\* ------------------------------------------------------------ index.ts: merge
isSubresourceFilter(h, f) == f # 0 /\ "subresources" \in DOMAIN h[f]

isResourceFilter(h, f) == f # 0 /\ "type" \notin DOMAIN h[f] /\ "subresources" \notin DOMAIN h[f]

\* Mutant: the test compares with a $type no filter carries.
isEmptyTypeTypo(h, f) == "type" \in DOMAIN h[f] /\ h[f].type = "none"

isEmptyType(h, f) == "type" \in DOMAIN h[f] /\ h[f].type = "empty"

\* Mutant: 'exists' is missing from the list.
isMatchTypeNoExists(h, f) ==
    "type" \in DOMAIN h[f] /\ h[f].type \in {"match", "match_edge", "join"}

isMatchType(h, f) ==
    "type" \in DOMAIN h[f] /\ h[f].type \in {"match", "match_edge", "join", "exists"}

\* Mutant: a.$filter = f; return a
SpreadFilterInPlace(h, a, f) ==
    [heap |-> [h EXCEPT ![a] = [k \in DOMAIN h[a] \cup {"filter"} |->
                                    IF k = "filter" THEN f ELSE h[a][k]]],
     ret |-> a]

\* Mutant: the merged filter is stored as a Join of its own, { ...a, $filter: Join[f] }.
SpreadFilterJoined(h, a, f) ==
    LET j == Alloc(h, [type |-> "join", operation |-> "AND", clauses |-> <<f>>])
    IN Alloc(j.heap, [k \in DOMAIN h[a] \cup {"filter"} |->
                         IF k = "filter" THEN j.ret ELSE h[a][k]])

\* Mutant: { ...a }, the merged filter is not stored.
SpreadFilterDropped(h, a, f) == Alloc(h, h[a])

\* { ...a, $filter: f }: a new object with a's own keys and $filter set.
SpreadFilter(h, a, f) ==
    Alloc(h, [k \in DOMAIN h[a] \cup {"filter"} |-> IF k = "filter" THEN f ELSE h[a][k]])

\* { ...a, $filter: f, $subresources: s }
SpreadFilterSubresources(h, a, f, s) ==
    Alloc(h, [k \in DOMAIN h[a] \cup {"filter", "subresources"} |->
                 CASE k = "filter" -> f
                   [] k = "subresources" -> s
                   [] OTHER -> h[a][k]])

\* Mutant: only the keys of a are walked.
mergedKeysOfA(ma, mb) == DOMAIN ma

\* new Set([...Object.keys(a.$subresources), ...Object.keys(b.$subresources)])
mergedKeys(ma, mb) == DOMAIN ma \cup DOMAIN mb

\* Mutant: $clauses: [b, a]
joinLiteralSwapped(a, b, op) == [type |-> "join", operation |-> op, clauses |-> <<b, a>>]

\* Mutant: $operation: 'AND'
joinLiteralAnd(a, b, op) == [type |-> "join", operation |-> "AND", clauses |-> <<a, b>>]

\* { $type: 'join', $operation: operation, $clauses: [a, b] }
joinLiteral(a, b, op) == [type |-> "join", operation |-> op, clauses |-> <<a, b>>]

RECURSIVE mergeCall(_, _, _, _)
RECURSIVE mergeEntries(_, _, _, _)

\* The loop of lines 108-110 over the keys ks: subresources[key] = merge(a[key], b[key]).
mergeEntries(h, ma, mb, ks) ==
    IF ks = <<>> THEN [heap |-> h, entries |-> EmptyObject, wraps |-> 0]
    ELSE LET key == Head(ks)
             x == mergeCall(h, Get(h[ma], key), Get(h[mb], key), "AND")
             r == mergeEntries(x.heap, ma, mb, Tail(ks))
         IN [heap |-> r.heap, entries |-> (key :> x.ret) @@ r.entries,
             wraps |-> x.wraps + r.wraps]

\* merge(a, b, operation) run on heap h: the heap it leaves, the reference it
\* returns and the number of times it reached the Join wrapping of line 135.
mergeCall(h, a, b, op) ==
    IF a = 0 THEN
        IF b # 0 THEN [heap |-> h, ret |-> b, wraps |-> 0]
        ELSE LET n == Alloc(h, NoFilter) IN [heap |-> n.heap, ret |-> n.ret, wraps |-> 0]
    ELSE IF b = 0 THEN [heap |-> h, ret |-> a, wraps |-> 0]
    ELSE IF isEmptyType(h, a) THEN [heap |-> h, ret |-> b, wraps |-> 0]
    ELSE IF isEmptyType(h, b) THEN [heap |-> h, ret |-> a, wraps |-> 0]
    ELSE IF isResourceFilter(h, a) /\ isResourceFilter(h, b) THEN
        LET m == mergeCall(h, Get(h[a], "filter"), Get(h[b], "filter"), "AND")
            n == SpreadFilter(m.heap, a, m.ret)
        IN [heap |-> n.heap, ret |-> n.ret, wraps |-> m.wraps]
    ELSE IF isSubresourceFilter(h, a) /\ isSubresourceFilter(h, b) THEN
        LET m == mergeCall(h, Get(h[a], "filter"), Get(h[b], "filter"), "AND")
        IN IF h[a].subresources = 0 THEN
               LET n == SpreadFilter(m.heap, b, m.ret)
               IN [heap |-> n.heap, ret |-> n.ret, wraps |-> m.wraps]
           ELSE IF h[b].subresources = 0 THEN
               LET n == SpreadFilter(m.heap, a, m.ret)
               IN [heap |-> n.heap, ret |-> n.ret, wraps |-> m.wraps]
           ELSE
               LET ma == h[a].subresources
                   mb == h[b].subresources
                   e == mergeEntries(m.heap, ma, mb, KeysInOrder(mergedKeys(h[ma], h[mb])))
                   s == Alloc(e.heap, e.entries)
                   n == SpreadFilterSubresources(s.heap, a, m.ret, s.ret)
               IN [heap |-> n.heap, ret |-> n.ret, wraps |-> m.wraps + e.wraps]
    ELSE IF isSubresourceFilter(h, a) /\ isResourceFilter(h, b) THEN
        LET m == mergeCall(h, Get(h[a], "filter"), Get(h[b], "filter"), "AND")
            n == SpreadFilter(m.heap, a, m.ret)
        IN [heap |-> n.heap, ret |-> n.ret, wraps |-> m.wraps]
    ELSE IF isResourceFilter(h, a) /\ isSubresourceFilter(h, b) THEN
        LET m == mergeCall(h, Get(h[a], "filter"), Get(h[b], "filter"), "AND")
            n == SpreadFilter(m.heap, b, m.ret)
        IN [heap |-> n.heap, ret |-> n.ret, wraps |-> m.wraps]
    ELSE IF (isResourceFilter(h, a) \/ isSubresourceFilter(h, a)) /\ isMatchType(h, b) THEN
        LET m == mergeCall(h, Get(h[a], "filter"), b, "AND")
            n == SpreadFilter(m.heap, a, m.ret)
        IN [heap |-> n.heap, ret |-> n.ret, wraps |-> m.wraps]
    ELSE IF (isResourceFilter(h, b) \/ isSubresourceFilter(h, b)) /\ isMatchType(h, a) THEN
        LET m == mergeCall(h, a, Get(h[b], "filter"), "AND")
            n == SpreadFilter(m.heap, b, m.ret)
        IN [heap |-> n.heap, ret |-> n.ret, wraps |-> m.wraps]
    ELSE
        LET n == Alloc(h, joinLiteral(a, b, op))
        IN [heap |-> n.heap, ret |-> n.ret, wraps |-> 1]

RECURSIVE reduceMergeSwapped(_, _, _)

\* Mutant: the callback calls merge(current, acc).
reduceMergeSwapped(h, acc, rest) ==
    IF rest = <<>> THEN [heap |-> h, ret |-> acc, wraps |-> 0]
    ELSE LET m == mergeCall(h, Head(rest), acc, "AND")
             r == reduceMergeSwapped(m.heap, m.ret, Tail(rest))
         IN [heap |-> r.heap, ret |-> r.ret, wraps |-> m.wraps + r.wraps]

RECURSIVE reduceMerge(_, _, _)

\* filters.reduce((acc, current) => merge(acc, current)) from accumulator acc on.
reduceMerge(h, acc, rest) ==
    IF rest = <<>> THEN [heap |-> h, ret |-> acc, wraps |-> 0]
    ELSE LET m == mergeCall(h, acc, Head(rest), "AND")
             r == reduceMerge(m.heap, m.ret, Tail(rest))
         IN [heap |-> r.heap, ret |-> r.ret, wraps |-> m.wraps + r.wraps]

\* combine(...filters)
combineCall(h, filters) ==
    IF Len(filters) = 0 THEN
        LET n == Alloc(h, NoFilter) IN [heap |-> n.heap, ret |-> n.ret, wraps |-> 0]
    ELSE IF Len(filters) = 1 THEN [heap |-> h, ret |-> filters[1], wraps |-> 0]
    ELSE reduceMerge(h, Head(filters), Tail(filters))

\* ------------------------------------------------------------ inputs
Atoms == {MatchV("x"), MatchV("y"), MatchEdgeV("e")}

ClauseAtoms == {MatchV("x"), MatchEdgeV("e")}

ClauseLists == UNION {[1..n -> ClauseAtoms] : n \in 1..MaxClauses}

Joins == {JoinV(op, cl) : op \in {"AND", "OR"}, cl \in ClauseLists}
         \cup {JoinV("AND", <<JoinV("OR", <<MatchV("x"), MatchV("y")>>), MatchEdgeV("e")>>)}

Existses == {ExistsV("k", f) : f \in {MatchV("x"), NoFilter}}

Leaves == Atoms \cup Joins \cup Existses

\* What a $filter slot holds; Undef is the key present with the value undefined.
Slots == {Undef, NoFilter, MatchV("x"), MatchV("y"),
          JoinV("AND", <<MatchV("x"), MatchEdgeV("e")>>)}

Resources == {EmptyObject} \cup {ResourceV(s) : s \in Slots}
             \cup {ResourceV(EmptyObject), ResourceV(ResourceV(MatchV("y")))}

SubValues == {MatchV("y"), ResourceV(MatchV("x")), NoFilter}

Maps == UNION {[K -> SubValues] : K \in SUBSET Keys}

Subresources == {SubresourceOnlyV(m) : m \in Maps \cup {Undef}}
                \cup {SubresourceV(f, m) : f \in {MatchV("x"), NoFilter}, m \in Maps \cup {Undef}}

Filters == {NoFilter} \cup Leaves \cup Resources \cup Subresources

Operands == Filters \cup {Undef}

\* The filters of the calls with three arguments and more.
FoldPool == Atoms \cup {JoinV("AND", <<MatchV("x"), MatchEdgeV("e")>>),
                        JoinV("OR", <<MatchV("x"), MatchV("y")>>),
                        ExistsV("k", MatchV("x")),
                        NoFilter, EmptyObject, ResourceV(MatchV("x")),
                        SubresourceOnlyV("p" :> MatchV("y"))}

ArgLists == {<<>>} \cup {<<v>> : v \in Filters} \cup (Operands \X Operands)
            \cup UNION {[1..n -> FoldPool] : n \in 3..MaxArgs}

\* ------------------------------------------------------------ the calls
\* The caller builds its arguments; two equal arguments may be one object.
FilterInit ==
    /\ \E vs \in ArgLists :
          LET st == StoreSeq(<<>>, vs)
          IN /\ heap0 = st.heap
             /\ heap = st.heap
             /\ args \in {st.refs} \cup
                   (IF Len(vs) = 2 /\ vs[1] = vs[2] THEN {<<st.refs[1], st.refs[1]>>} ELSE {})
    /\ operation = "AND"
    /\ fpc = "input"
    /\ ret = 0
    /\ ret2 = 0
    /\ wraps = 0

\* merge(a, b, operation)
CallMerge ==
    /\ fpc = "input"
    /\ Len(args) = 2
    /\ \E op \in {"AND", "OR"} :
          LET m == mergeCall(heap, args[1], args[2], op)
          IN /\ heap' = m.heap
             /\ ret' = m.ret
             /\ wraps' = m.wraps
             /\ operation' = op
    /\ fpc' = "merge"
    /\ UNCHANGED <<heap0, args, ret2>>
    /\ UNCHANGED <<gvars, rvars, svars, ivars, dvars, nvars, xvars>>

\* combine(...filters)
CallCombine ==
    /\ fpc = "input"
    /\ LET m == combineCall(heap, args)
       IN /\ heap' = m.heap
          /\ ret' = m.ret
          /\ wraps' = m.wraps
    /\ fpc' = "combine"
    /\ UNCHANGED <<heap0, args, operation, ret2>>
    /\ UNCHANGED <<gvars, rvars, svars, ivars, dvars, nvars, xvars>>

\* merge(merge(A, B, 'AND'), C, 'AND') and then merge(A, merge(B, C, 'AND'), 'AND')
CallAssoc ==
    /\ fpc = "input"
    /\ Len(args) = 3
    /\ LET ab == mergeCall(heap, args[1], args[2], "AND")
           l == mergeCall(ab.heap, ab.ret, args[3], "AND")
           bc == mergeCall(l.heap, args[2], args[3], "AND")
           r == mergeCall(bc.heap, args[1], bc.ret, "AND")
       IN /\ heap' = r.heap
          /\ ret' = l.ret
          /\ ret2' = r.ret
          /\ wraps' = ab.wraps + l.wraps
    /\ fpc' = "assoc"
    /\ UNCHANGED <<heap0, args, operation>>
    /\ UNCHANGED <<gvars, rvars, svars, ivars, dvars, nvars, xvars>>

FilterNext == CallMerge \/ CallCombine \/ CallAssoc

\* ------------------------------------------------------------ generation runs
\* What a run loads: the source argument and, below a Nova base URL, the two
\* endpoints <base>/resources.json and <base>/nodes.json.
Sources == {"source", "resources", "nodes"}

Files == {"nodes.ts", "options.ts", "resources.ts"}

Counts == 0..MaxEntities

Entries == {"generate", "generateResources", "generateFromBothEndpoints"}

\* The source argument: an object, a value that is neither string nor object, an
\* inline JSON string, a file path, a URL of a document, a string that contains
\* '/resources.json' or '/nodes.json', a base URL without '.json' or '/openapi'.
SourceKinds == {"object", "invalid", "json", "file", "url", "resourcesEndpoint",
                "nodesEndpoint", "novaBase"}

\* The world a run meets: how each load ends, what each document holds, whether
\* the resource assembly of the document succeeds, which files can be written.
Environments ==
    [load : [Sources -> {"ok", "io", "parse"}],
     nodes : [{"source", "nodes"} -> Counts],
     options : [{"source", "resources"} -> Counts],
     proxies : Counts,
     assembleOk : BOOLEAN,
     writeOk : [Files -> BOOLEAN],
     dirOk : BOOLEAN]

NoError == [kind |-> "none", source |-> "", cause |-> "none"]

\* new SchemaLoadError(message, source, cause?)
SchemaLoadError(s) == [kind |-> "SchemaLoadError", source |-> s, cause |-> "load"]

\* new Error('No schemas with _malevich_ogm_node or _malevich_ogm_link found')
NoSchemasError == [kind |-> "Error", source |-> "", cause |-> "zero"]

\* What writeFileSync and mkdirSync throw.
FsError(c) == [kind |-> "Error", source |-> "", cause |-> c]

\* The TypeError of generateAbstractResources on a mount that is null.
AssembleError == [kind |-> "TypeError", source |-> "", cause |-> "assemble"]

\* getSchema(source): the document, or the SchemaLoadError it throws.
getSchema(s) ==
    IF s = "source" /\ srcKind = "object" THEN [ok |-> TRUE, error |-> NoError]
    ELSE IF s = "source" /\ srcKind = "invalid" THEN [ok |-> FALSE, error |-> SchemaLoadError(s)]
    ELSE IF s = "source" /\ srcKind = "json" THEN [ok |-> TRUE, error |-> NoError]
    ELSE IF env.load[s] = "ok" THEN [ok |-> TRUE, error |-> NoError]
    ELSE [ok |-> FALSE, error |-> SchemaLoadError(s)]

\* Mutant: the probe answers true whatever the load does.
checkEndpointAvailabilityAlways(s) == TRUE

\* checkEndpointAvailability(url): a failed load is caught and answers false.
checkEndpointAvailability(s) == getSchema(s).ok

\* isNovaServer(source)
isNovaServer == srcKind = "novaBase"

GenFrame == UNCHANGED <<entry, srcKind, env, fvars, rvars, svars, ivars, dvars, nvars, xvars>>

\* Mutant: the try of generateResources has no catch.
ThrowUncaught(e) ==
    /\ raised' = Append(raised, [error |-> e, at |-> gpc, caught |-> FALSE])
    /\ gpc' = "failed"
    /\ err' = e
    /\ UNCHANGED <<inTry, path, doc>>

\* An error thrown at the current step: inside the try of generateResources its
\* catch logs it and the run goes on with the OpenAPI generation of the source;
\* anywhere else it reaches the caller of the entry point.
Throw(e) ==
    /\ raised' = Append(raised, [error |-> e, at |-> gpc, caught |-> inTry])
    /\ IF inTry
       THEN /\ gpc' = "oa.load"
            /\ inTry' = FALSE
            /\ path' = Append(path, "openapi")
            /\ doc' = "source"
            /\ UNCHANGED err
       ELSE /\ gpc' = "failed"
            /\ err' = e
            /\ UNCHANGED <<inTry, path, doc>>

Goto(pc) == gpc' = pc /\ UNCHANGED <<raised, err, inTry, path, doc>>

\* The caller invokes an entry point.
Enter ==
    /\ gpc = "start"
    /\ gpc' = CASE entry = "generate" -> "gen.load"
                [] entry = "generateResources" -> "gr.ensureDir"
                [] entry = "generateFromBothEndpoints" -> "both.ensureDir"
    /\ path' = IF entry = "generateFromBothEndpoints" THEN <<"both">>
               ELSE IF entry = "generate" THEN <<"generate">> ELSE <<>>
    /\ UNCHANGED <<raised, err, inTry, doc, written, exitCode>>
    /\ GenFrame

\* generate: const data = await getSchema(source)
GenLoad ==
    /\ gpc = "gen.load"
    /\ IF getSchema("source").ok THEN Goto("gen.extract") ELSE Throw(getSchema("source").error)
    /\ UNCHANGED <<written, exitCode>>
    /\ GenFrame

\* generate: extractOgmSchemas, the zero check, the interfaces; catch rethrows.
GenExtract ==
    /\ gpc = "gen.extract"
    /\ IF env.nodes["source"] = 0 THEN Throw(NoSchemasError) ELSE Goto("done")
    /\ UNCHANGED <<written, exitCode>>
    /\ GenFrame

\* generateResources: await ensureDirectoryExists(outDir)
EnsureDir ==
    /\ gpc \in {"gr.ensureDir", "both.ensureDir"}
    /\ IF ~env.dirOk THEN Throw(FsError("dir"))
       ELSE IF gpc = "both.ensureDir" THEN Goto("both.fetchResources")
       ELSE gpc' = (CASE srcKind = "resourcesEndpoint" -> "res.fetch"
                      [] srcKind = "nodesEndpoint" -> "nodes.fetch"
                      [] srcKind = "novaBase" -> "detect"
                      [] OTHER -> "oa.load")
            /\ path' = (CASE srcKind = "resourcesEndpoint" -> <<"resources">>
                          [] srcKind = "nodesEndpoint" -> <<"nodes">>
                          [] srcKind = "novaBase" -> <<>>
                          [] OTHER -> <<"openapi">>)
            /\ UNCHANGED <<raised, err, inTry, doc>>
    /\ UNCHANGED <<written, exitCode>>
    /\ GenFrame

\* generateResources: detectNovaEndpoints probes both endpoints, then one branch.
Detect ==
    /\ gpc = "detect"
    /\ LET hasResources == checkEndpointAvailability("resources")
           hasNodes == checkEndpointAvailability("nodes")
       IN /\ raised' = raised
                \o (IF hasResources THEN <<>>
                    ELSE <<[error |-> getSchema("resources").error,
                            at |-> gpc, caught |-> TRUE]>>)
                \o (IF hasNodes THEN <<>>
                    ELSE <<[error |-> getSchema("nodes").error,
                            at |-> gpc, caught |-> TRUE]>>)
          /\ gpc' = IF hasResources /\ hasNodes THEN "both.ensureDir"
                    ELSE IF hasResources THEN "res.fetch"
                    ELSE IF hasNodes THEN "nodes.fetch"
                    ELSE "oa.load"
          /\ path' = IF hasResources /\ hasNodes THEN <<"both">>
                     ELSE IF hasResources THEN <<"resources">>
                     ELSE IF hasNodes THEN <<"nodes">>
                     ELSE <<"openapi">>
          /\ inTry' = (hasResources \/ hasNodes)
    /\ UNCHANGED <<err, doc, written, exitCode>>
    /\ GenFrame

\* fetchResourcesData(url) and processResourcesFromEndpoint
FetchResources ==
    /\ gpc \in {"res.fetch", "both.fetchResources"}
    /\ LET url == IF srcKind = "novaBase" \/ entry = "generateFromBothEndpoints"
                  THEN "resources" ELSE "source"
       IN IF ~getSchema(url).ok THEN Throw(getSchema(url).error)
          ELSE IF gpc = "both.fetchResources" THEN Goto("both.fetchNodes")
          ELSE IF env.options[url] > 0 THEN Goto("res.write")
          ELSE Goto("done")
    /\ UNCHANGED <<written, exitCode>>
    /\ GenFrame

\* fetchNodesData(url) and processNodesFromEndpoint
FetchNodes ==
    /\ gpc \in {"nodes.fetch", "both.fetchNodes"}
    /\ LET url == IF srcKind = "novaBase" \/ entry = "generateFromBothEndpoints"
                  THEN "nodes" ELSE "source"
       IN IF ~getSchema(url).ok THEN Throw(getSchema(url).error)
          ELSE gpc' = (IF gpc = "both.fetchNodes" THEN "both.gen" ELSE "nodes.gen")
               /\ doc' = url
               /\ UNCHANGED <<raised, err, inTry, path>>
    /\ UNCHANGED <<written, exitCode>>
    /\ GenFrame

\* generateResources: const data = await getSchema(source)
OpenApiLoad ==
    /\ gpc = "oa.load"
    /\ IF ~getSchema("source").ok THEN Throw(getSchema("source").error)
       ELSE gpc' = "oa.gen" /\ doc' = "source" /\ UNCHANGED <<raised, err, inTry, path>>
    /\ UNCHANGED <<written, exitCode>>
    /\ GenFrame

\* const nodesTs = await generateNodes(data): generate on the loaded document.
GenerateNodes ==
    /\ gpc \in {"nodes.gen", "both.gen", "oa.gen"}
    /\ IF env.nodes[doc] = 0 THEN Throw(NoSchemasError)
       ELSE Goto(CASE gpc = "nodes.gen" -> "nodes.write"
                   [] gpc = "both.gen" -> "both.writeNodes"
                   [] gpc = "oa.gen" -> "oa.writeNodes")
    /\ UNCHANGED <<written, exitCode>>
    /\ GenFrame

\* await writeFile(await joinPath(outDir, 'nodes.ts'), nodesTs)
WriteNodes ==
    /\ gpc \in {"nodes.write", "both.writeNodes", "oa.writeNodes"}
    /\ IF ~env.writeOk["nodes.ts"] THEN Throw(FsError("write")) /\ UNCHANGED written
       ELSE /\ written' = written \cup {"nodes.ts"}
            /\ LET opts == IF gpc = "both.writeNodes" THEN env.options["resources"]
                           ELSE env.options["source"]
               IN Goto(CASE gpc = "nodes.write" -> "done"
                         [] gpc = "both.writeNodes" ->
                               IF opts > 0 THEN "both.writeOptions" ELSE "done"
                         [] gpc = "oa.writeNodes" ->
                               IF opts > 0 THEN "oa.writeOptions" ELSE "oa.resources")
    /\ UNCHANGED exitCode
    /\ GenFrame

\* generateAllResourceOptionsFile(resourceOptions, outDir), called when size > 0
WriteOptions ==
    /\ gpc \in {"res.write", "both.writeOptions", "oa.writeOptions"}
    /\ IF ~env.writeOk["options.ts"] THEN Throw(FsError("write")) /\ UNCHANGED written
       ELSE /\ written' = written \cup {"options.ts"}
            /\ Goto(IF gpc = "oa.writeOptions" THEN "oa.resources" ELSE "done")
    /\ UNCHANGED exitCode
    /\ GenFrame

\* extractResourceSchemas, the proxy filter and its early return, then
\* generateAbstractResources and generateLinkTypes.
AssembleResources ==
    /\ gpc = "oa.resources"
    /\ IF env.proxies = 0 THEN Goto("done")
       ELSE IF ~env.assembleOk THEN Throw(AssembleError)
       ELSE Goto("oa.writeResources")
    /\ UNCHANGED <<written, exitCode>>
    /\ GenFrame

\* await writeFile(resourcesPath, output)
WriteResources ==
    /\ gpc = "oa.writeResources"
    /\ IF ~env.writeOk["resources.ts"] THEN Throw(FsError("write")) /\ UNCHANGED written
       ELSE written' = written \cup {"resources.ts"} /\ Goto("done")
    /\ UNCHANGED exitCode
    /\ GenFrame

\* cli.ts main: the run returned, or its error is caught and the process exits 1.
CliExit ==
    /\ gpc \in {"done", "failed"}
    /\ exitCode = -1
    /\ exitCode' = IF gpc = "failed" THEN 1 ELSE 0
    /\ UNCHANGED <<gpc, raised, err, inTry, path, doc, written>>
    /\ GenFrame

GenNext ==
    \/ Enter \/ GenLoad \/ GenExtract \/ EnsureDir \/ Detect \/ FetchResources
    \/ FetchNodes \/ OpenApiLoad \/ GenerateNodes \/ WriteNodes \/ WriteOptions
    \/ AssembleResources \/ WriteResources \/ CliExit

\* The components of the world an entry point with this source can meet; the
\* others are held at one value.
UsedSources(e, k) ==
    IF e = "generateFromBothEndpoints" THEN {"resources", "nodes"}
    ELSE IF e = "generateResources" /\ k = "novaBase" THEN Sources
    ELSE IF k \in {"object", "invalid", "json"} THEN {}
    ELSE {"source"}

UsedNodes(e, k) ==
    IF e = "generateFromBothEndpoints" THEN {"nodes"}
    ELSE IF e = "generateResources" /\ k = "novaBase" THEN {"source", "nodes"}
    ELSE IF k = "resourcesEndpoint" THEN {}
    ELSE {"source"}

UsedOptions(e, k) ==
    IF e = "generateFromBothEndpoints" THEN {"resources"}
    ELSE IF e = "generate" \/ k = "nodesEndpoint" THEN {}
    ELSE IF k = "novaBase" THEN {"source", "resources"}
    ELSE {"source"}

UsedFiles(e, k) ==
    IF e = "generate" THEN {}
    ELSE IF e = "generateFromBothEndpoints" THEN {"nodes.ts", "options.ts"}
    ELSE IF k = "resourcesEndpoint" THEN {"options.ts"}
    ELSE IF k = "nodesEndpoint" THEN {"nodes.ts"}
    ELSE Files

AssemblesResources(e, k) ==
    e = "generateResources" /\ k \notin {"resourcesEndpoint", "nodesEndpoint"}

KindsOf(e) ==
    IF e = "generate" THEN {"object", "invalid", "json", "file", "url"}
    ELSE IF e = "generateFromBothEndpoints" THEN {"novaBase"}
    ELSE SourceKinds

GenInit ==
    /\ entry \in Entries
    /\ srcKind \in KindsOf(entry)
    /\ \E l \in {f \in [Sources -> {"ok", "io", "parse"}] :
                    /\ \A s \in Sources \ UsedSources(entry, srcKind) : f[s] = "ok"
                    /\ \A s \in {"resources", "nodes"} : f[s] # "parse"},
          n \in {f \in [{"source", "nodes"} -> Counts] :
                    \A s \in {"source", "nodes"} \ UsedNodes(entry, srcKind) : f[s] = 1},
          o \in {f \in [{"source", "resources"} -> Counts] :
                    \A s \in {"source", "resources"} \ UsedOptions(entry, srcKind) : f[s] = 0},
          w \in {f \in [Files -> BOOLEAN] :
                    \A x \in Files \ UsedFiles(entry, srcKind) : f[x]},
          p \in IF AssemblesResources(entry, srcKind) THEN Counts ELSE {0},
          a \in IF AssemblesResources(entry, srcKind) THEN BOOLEAN ELSE {TRUE},
          d \in IF entry = "generate" THEN {TRUE} ELSE BOOLEAN :
          env = [load |-> l, nodes |-> n, options |-> o, proxies |-> p,
                 assembleOk |-> a, writeOk |-> w, dirOk |-> d]
    /\ gpc = "start"
    /\ inTry = FALSE
    /\ doc = "source"
    /\ written = {}
    /\ raised = <<>>
    /\ err = NoError
    /\ path = <<>>
    /\ exitCode = -1

\* ------------------------------------------------------------ options registry
\* Resource names, the contents an options object may have, the invocations.
ResourceNames == {"A", "B"}

Revs == {1, 2}

RunIds == 1..MaxRuns

\* A ResourceOptions object: its info.name and what else it holds.
ResourceOptions(n, v) == [name |-> n, rev |-> v]

\* Map.prototype.has, get, set, keys: a Map is its entries in insertion order,
\* and set on a key the Map holds replaces the value where the key stands.
mapHas(m, k) == \E i \in 1..Len(m) : m[i].key = k

mapGet(m, k) ==
    IF mapHas(m, k) THEN (m[CHOOSE i \in 1..Len(m) : m[i].key = k]).value ELSE Undef

mapSet(m, k, v) ==
    IF mapHas(m, k)
    THEN [i \in 1..Len(m) |-> IF m[i].key = k THEN [key |-> k, value |-> v] ELSE m[i]]
    ELSE Append(m, [key |-> k, value |-> v])

mapKeys(m) == [i \in 1..Len(m) |-> m[i].key]

\* Mutant: set never looks for the key.
setResourceOptionsAppend(m, resourceName, o) == Append(m, [key |-> resourceName, value |-> o])

\* this.options.set(resourceName, options)
setResourceOptions(m, resourceName, o) == mapSet(m, resourceName, o)

\* this.options.get(resourceName)
getResourceOptions(resourceName) == mapGet(options, resourceName)

\* this.options.has(resourceName)
hasResource(resourceName) == mapHas(options, resourceName)

\* Array.from(this.options.keys())
getAllResourceNames == mapKeys(options)

RECURSIVE registerAll(_, _, _)

\* The loop of processResourcesFromEndpoint and of extractResourceOptionsFromRoutes:
\* every resource of the document is set in the singleton.
registerAll(m, names, v) ==
    IF names = <<>> THEN m
    ELSE registerAll(setResourceOptions(m, Head(names), ResourceOptions(Head(names), v)),
                     Tail(names), v)

\* The calls a registration of the names makes, for the record of calls.
CallsOf(names, v, by) ==
    [i \in 1..Len(names) |->
        [op |-> "set", name |-> names[i], value |-> ResourceOptions(names[i], v), by |-> by]]

\* The resource names a document declares, in its order.
Documents == {<<"A">>, <<"B">>, <<"A", "B">>, <<"B", "A", "B">>}

RegistryFrame == UNCHANGED <<fvars, gvars, svars, ivars, dvars, nvars, xvars>>

\* A caller of the package: setResourceOptions(resourceName, options)
SetResourceOptions ==
    /\ Len(calls) < MaxCalls
    /\ \E n \in ResourceNames, v \in Revs :
          /\ options' = setResourceOptions(options, n, ResourceOptions(n, v))
          /\ calls' = Append(calls, [op |-> "set", name |-> n,
                                     value |-> ResourceOptions(n, v), by |-> 0])
    /\ UNCHANGED <<rpc, rdoc>>
    /\ RegistryFrame

\* A caller of the package: resourceOptionsManager.clear()
Clear ==
    /\ Len(calls) < MaxCalls
    /\ options' = <<>>
    /\ calls' = Append(calls, [op |-> "clear", name |-> "", value |-> Undef, by |-> 0])
    /\ UNCHANGED <<rpc, rdoc>>
    /\ RegistryFrame

\* generateResources(source, outDir) is called; it runs up to its first load.
StartRun(r) ==
    /\ rpc[r] = "idle"
    /\ rpc' = [rpc EXCEPT ![r] = "loading"]
    /\ UNCHANGED <<options, calls, rdoc>>
    /\ RegistryFrame

\* The document is loaded: processResourcesFromEndpoint or
\* extractResourceOptionsFromRoutes runs to its end.
Register(r) ==
    /\ rpc[r] = "loading"
    /\ \E d \in Documents :
          /\ Len(calls) + Len(d) <= MaxCalls
          /\ rdoc' = [rdoc EXCEPT ![r] = d]
          /\ options' = registerAll(options, d, r)
          /\ calls' = calls \o CallsOf(d, r, r)
    /\ rpc' = [rpc EXCEPT ![r] = "registered"]
    /\ RegistryFrame

\* The files are written and the invocation returns.
FinishRun(r) ==
    /\ rpc[r] = "registered"
    /\ rpc' = [rpc EXCEPT ![r] = "returned"]
    /\ UNCHANGED <<options, calls, rdoc>>
    /\ RegistryFrame

RegistryNext ==
    \/ SetResourceOptions
    \/ Clear
    \/ \E r \in RunIds : StartRun(r)
    \/ \E r \in RunIds : Register(r)
    \/ \E r \in RunIds : FinishRun(r)

\* private options: Map<string, ResourceOptions> = new Map()
RegistryInit ==
    /\ options = <<>>
    /\ calls = <<>>
    /\ rpc = [r \in RunIds |-> "idle"]
    /\ rdoc = [r \in RunIds |-> <<>>]

\* ------------------------------------------------------------ generator.ts: types
\* A schema name is the sequence of its pieces: runs of letters and digits, and
\* single characters of any other kind.
NonWord == {"-", ".", "$", "#/components/schemas/", "#/definitions/"}

\* name.replace(/[^a-zA-Z0-9_]/g, '_')
sanitizeName(name) == [i \in 1..Len(name) |-> IF name[i] \in NonWord THEN "_" ELSE name[i]]

\* A TypeScript type expression is the sequence of its pieces.
Ok(ts) == [threw |-> FALSE, ts |-> ts]

\* The call stack is exhausted: RangeError, Maximum call stack size exceeded.
RangeError == [threw |-> TRUE, ts |-> <<>>]

\* allSchemas[refName]
hasSchema(all, name) == \E i \in 1..Len(all) : all[i].name = name

schemaOf(all, name) == (all[CHOOSE i \in 1..Len(all) : all[i].name = name]).schema

\* !!(schema?._malevich_ogm_node || schema?._node_schema?._malevich_ogm_node)
isOgmNode(schema) ==
    \/ "_malevich_ogm_node" \in DOMAIN schema
    \/ "_node_schema" \in DOMAIN schema /\ "_malevich_ogm_node" \in DOMAIN schema._node_schema

\* !!(schema?._malevich_ogm_link || schema?._node_schema?._malevich_ogm_link)
isOgmLink(schema) ==
    \/ "_malevich_ogm_link" \in DOMAIN schema
    \/ "_node_schema" \in DOMAIN schema /\ "_malevich_ogm_link" \in DOMAIN schema._node_schema

\* prop.$ref.replace('#/components/schemas/', '')
refNameOf(ref) == IF ref # <<>> /\ Head(ref) = "#/components/schemas/" THEN Tail(ref) ELSE ref

\* sanitized.startsWith('ResourceEdge_')
startsWithResourceEdge(sanitized) ==
    Len(sanitized) >= 2 /\ sanitized[1] = "ResourceEdge" /\ sanitized[2] = "_"

RECURSIVE uniqueOf(_, _)

\* [...new Set(types)]: the first occurrence of every expression, in order.
uniqueOf(types, seen) ==
    IF types = <<>> THEN <<>>
    ELSE IF Head(types) \in seen THEN uniqueOf(Tail(types), seen)
    ELSE <<Head(types)>> \o uniqueOf(Tail(types), seen \cup {Head(types)})

RECURSIVE joinTypes(_, _)

\* types.join(sep)
joinTypes(types, sep) ==
    IF types = <<>> THEN <<>>
    ELSE IF Len(types) = 1 THEN Head(types)
    ELSE Head(types) \o <<sep>> \o joinTypes(Tail(types), sep)

\* typeof val === 'string' ? `"${val}"` : val
enumValue(val) ==
    IF "string" \in DOMAIN val THEN <<"\"", val.string, "\"">> ELSE <<ToString(val.number)>>

RECURSIVE jsonSchemaToTsType(_, _, _)
RECURSIVE mapTsType(_, _, _)

\* items.map(item => jsonSchemaToTsType(item, allSchemas))
mapTsType(items, all, d) ==
    IF items = <<>> THEN [threw |-> FALSE, types |-> <<>>]
    ELSE LET h == jsonSchemaToTsType(Head(items), all, d)
         IN IF h.threw THEN [threw |-> TRUE, types |-> <<>>]
            ELSE LET t == mapTsType(Tail(items), all, d)
                 IN IF t.threw THEN t
                    ELSE [threw |-> FALSE, types |-> <<h.ts>> \o t.types]

\* jsonSchemaToTsType(prop, allSchemas), d frames deep on the call stack.
jsonSchemaToTsType(p, all, d) ==
    IF d > MaxStack THEN RangeError
    ELSE IF IsUndef(p) THEN Ok(<<"any">>)
    ELSE IF "ref" \in DOMAIN p THEN
        LET refName == refNameOf(p.ref)
            sanitized == sanitizeName(refName)
        IN IF startsWithResourceEdge(sanitized) THEN Ok(<<"ResourceEdge<any, any>">>)
           ELSE IF hasSchema(all, refName)
                   /\ (isOgmNode(schemaOf(all, refName)) \/ isOgmLink(schemaOf(all, refName)))
           THEN Ok(sanitized)
           ELSE IF hasSchema(all, refName) THEN jsonSchemaToTsType(schemaOf(all, refName), all, d + 1)
           ELSE Ok(<<"any">>)
    ELSE IF "anyOf" \in DOMAIN p THEN
        LET m == mapTsType(p.anyOf, all, d + 1)
        IN IF m.threw THEN RangeError
           ELSE LET types == SelectSeq(m.types, LAMBDA t : t # <<"null">>)
                    hasNull == \E i \in 1..Len(p.anyOf) :
                                  /\ "type" \in DOMAIN p.anyOf[i]
                                  /\ p.anyOf[i].type = "null"
                    uniqueTypes == uniqueOf(types, {})
                IN IF uniqueTypes = <<>> THEN Ok(<<"any">>)
                   ELSE IF hasNull THEN Ok(joinTypes(uniqueTypes, "|") \o <<"|", "null">>)
                   ELSE Ok(joinTypes(uniqueTypes, "|"))
    ELSE IF "allOf" \in DOMAIN p THEN
        jsonSchemaToTsType(IF p.allOf = <<>> THEN Undef ELSE p.allOf[1], all, d + 1)
    ELSE IF "oneOf" \in DOMAIN p THEN
        LET m == mapTsType(p.oneOf, all, d + 1)
        IN IF m.threw THEN RangeError ELSE Ok(joinTypes(uniqueOf(m.types, {}), "|"))
    ELSE IF "type" \in DOMAIN p /\ p.type = "array" THEN
        IF "items" \in DOMAIN p
        THEN LET itemType == jsonSchemaToTsType(p.items, all, d + 1)
             IN IF itemType.threw THEN RangeError ELSE Ok(itemType.ts \o <<"[]">>)
        ELSE Ok(<<"any[]">>)
    ELSE IF "type" \in DOMAIN p /\ p.type = "object" THEN Ok(<<"any">>)
    ELSE IF "enum" \in DOMAIN p THEN
        Ok(joinTypes([i \in 1..Len(p.enum) |-> enumValue(p.enum[i])], "|"))
    ELSE IF "type" \in DOMAIN p /\ p.type \in {"string", "boolean", "null"} THEN Ok(<<p.type>>)
    ELSE IF "type" \in DOMAIN p /\ p.type \in {"number", "integer"} THEN Ok(<<"number">>)
    ELSE Ok(<<"any">>)

\* Schemas, as a document writes them.
TypeOf(t) == [type |-> t]

RefTo(name) == [ref |-> <<"#/components/schemas/">> \o name]

AnyOf(items) == [anyOf |-> items]

OneOf(items) == [oneOf |-> items]

ArrayOf(item) == [type |-> "array", items |-> item]

NodeSchema == [type |-> "object", _malevich_ogm_node |-> [name |-> <<"N">>]]

LinkSchema == [type |-> "object", _malevich_ogm_link |-> [name |-> <<"L">>]]

\* The schemas of the document that are no entities: A and B.
SchemasOfA == {TypeOf("string"), TypeOf("null"), RefTo(<<"B">>), RefTo(<<"A">>),
               ArrayOf(RefTo(<<"A">>)), AnyOf(<<RefTo(<<"A">>), TypeOf("string")>>)}

SchemasOfB == {TypeOf("number"), TypeOf("null"), RefTo(<<"A">>)}

SchemaRegistries ==
    {<<[name |-> <<"A">>, schema |-> a], [name |-> <<"B">>, schema |-> b],
       [name |-> <<"N">>, schema |-> NodeSchema], [name |-> <<"L">>, schema |-> LinkSchema]>>
       \o e :
       a \in SchemasOfA, b \in SchemasOfB,
       e \in {<<>>, <<[name |-> <<"ResourceEdge", "_", "X">>, schema |-> NodeSchema]>>}}

\* What a branch of a union is.
Branches == {TypeOf("string"), TypeOf("number"), TypeOf("null"), RefTo(<<"A">>),
             AnyOf(<<TypeOf("string"), TypeOf("null")>>)}

BranchLists == UNION {[1..n -> Branches] : n \in 1..MaxBranches}

Plain == {TypeOf("string"), TypeOf("integer"), TypeOf("boolean"), TypeOf("null"),
          TypeOf("object"), [type |-> "array"], [enum |-> <<[string |-> "x"], [number |-> 1]>>],
          EmptyObject, Undef}

References == {RefTo(<<"A">>), RefTo(<<"B">>), RefTo(<<"N">>), RefTo(<<"L">>),
               RefTo(<<"ResourceEdge", "_", "X">>), RefTo(<<"Missing">>),
               [ref |-> <<"#/definitions/", "A">>]}

Props == Plain \cup References
         \cup {AnyOf(l) : l \in BranchLists} \cup {OneOf(l) : l \in BranchLists}
         \cup {ArrayOf(x) : x \in {TypeOf("string"), RefTo(<<"A">>), RefTo(<<"N">>)}}
         \cup {[allOf |-> <<x, TypeOf("string")>>] : x \in {TypeOf("number"), RefTo(<<"A">>)}}

SynthFrame == UNCHANGED <<fvars, gvars, rvars, ivars, dvars, nvars, xvars>>

SynthInit ==
    /\ allSchemas \in SchemaRegistries
    /\ prop \in Props
    /\ result = Ok(<<>>)
    /\ spc = "input"

\* const propType = jsonSchemaToTsType(propSchema, allSchemas)
Synthesize ==
    /\ spc = "input"
    /\ result' = jsonSchemaToTsType(prop, allSchemas, 1)
    /\ spc' = "done"
    /\ UNCHANGED <<allSchemas, prop>>
    /\ SynthFrame

SynthNext == Synthesize

\* No synthesis call.
SynthIdle ==
    /\ allSchemas = <<>>
    /\ prop = Undef
    /\ result = Ok(<<>>)
    /\ spc = "idle"

\* ------------------------------------------------------------ generator.ts: generate
\* schema.properties || {}: the entries in key order.
propertiesOf(schema) == IF "properties" \in DOMAIN schema THEN schema.properties ELSE <<>>

\* new Set(schema.required || [])
requiredOf(schema) == IF "required" \in DOMAIN schema THEN schema.required ELSE {}

\* baseInterface ? new Set(['uid', 'created_at', 'updated_at']) : new Set()
skipProps(baseInterface) ==
    IF baseInterface # "" THEN {"uid", "created_at", "updated_at"} ELSE {}

\* Mutant: every property is optional.
isOptionalAlways(required, propName) == TRUE

\* const isOptional = !required.has(propName)
isOptional(required, propName) == propName \notin required

RECURSIVE interfaceBody(_, _, _, _)

\* The loop over Object.entries(properties): one line per property that is kept.
interfaceBody(props, required, skip, all) ==
    IF props = <<>> THEN [threw |-> FALSE, lines |-> <<>>]
    ELSE IF Head(props).name \in skip THEN interfaceBody(Tail(props), required, skip, all)
    ELSE LET propType == jsonSchemaToTsType(Head(props).schema, all, 1)
         IN IF propType.threw THEN [threw |-> TRUE, lines |-> <<>>]
            ELSE LET rest == interfaceBody(Tail(props), required, skip, all)
                 IN IF rest.threw THEN rest
                    ELSE [threw |-> FALSE,
                          lines |-> <<[prop |-> Head(props).name,
                                       optional |-> isOptional(required, Head(props).name),
                                       type |-> propType.ts]>> \o rest.lines]

IndexSignature == [prop |-> "[k: string]", optional |-> FALSE, type |-> <<"any">>]

\* generateInterface(schemaWithOgm, allSchemas): no declaration is the empty string.
generateInterface(schemaWithOgm, all) ==
    LET sanitized == sanitizeName(schemaWithOgm.name)
        baseInterface == IF schemaWithOgm.isNode THEN "Base"
                         ELSE IF schemaWithOgm.isLink THEN "Link" ELSE ""
        schema == schemaWithOgm.schema
        body == interfaceBody(propertiesOf(schema), requiredOf(schema),
                              skipProps(baseInterface), all)
        withIndex == IF "additionalProperties" \in DOMAIN schema
                        /\ schema.additionalProperties = TRUE /\ body.lines # <<>>
                     THEN body.lines \o <<IndexSignature>> ELSE body.lines
    IN IF sanitized \in {<<"Base">>, <<"Link">>} THEN [threw |-> FALSE, code |-> <<>>]
       ELSE IF body.threw THEN [threw |-> TRUE, code |-> <<>>]
       ELSE IF withIndex = <<>> /\ baseInterface = "" THEN [threw |-> FALSE, code |-> <<>>]
       ELSE [threw |-> FALSE,
             code |-> <<[name |-> sanitized, extends |-> baseInterface, body |-> withIndex]>>]

\* data.components?.schemas, and {} without it
componentsOf(d) == IF "components" \in DOMAIN d THEN d.components ELSE <<>>

RECURSIVE extractOgmSchemas(_)

\* extractOgmSchemas(data): the loop over the entries of data.components.schemas.
extractOgmSchemas(entries) ==
    IF entries = <<>> THEN <<>>
    ELSE (IF isOgmNode(Head(entries).schema)
          THEN <<[name |-> sanitizeName(Head(entries).name), schema |-> Head(entries).schema,
                  isNode |-> TRUE, isLink |-> FALSE]>>
          ELSE <<>>) \o extractOgmSchemas(Tail(entries))

\* generateBaseInterfaces(): the names it declares.
BaseDeclarations == {<<"Base">>, <<"Link">>, <<"ResourceEdge">>}

\* ------------------------------------------------------------ part_002: generate
RECURSIVE pushUnseen(_, _)

\* for (const [name, schema] of entries) if (!seen.has(name)) { push; seen.add(name) }
pushUnseen(schemas, entries) ==
    IF entries = <<>> THEN schemas
    ELSE pushUnseen(IF hasSchema(schemas, Head(entries).name) THEN schemas
                    ELSE Append(schemas, Head(entries)),
                    Tail(entries))

\* Object.entries(data) of a document without openapi and components: the key
\* definitions with the map it holds, and the schemas at the root.
rootEntries(d) ==
    (IF "definitions" \in DOMAIN d
     THEN <<[name |-> <<"definitions">>, schema |-> [definitions |-> d.definitions]]>>
     ELSE <<>>)
    \o (IF "flat" \in DOMAIN d THEN d.flat ELSE <<>>)

\* obj.title || obj._node_name || obj._malevich_ogm_node?.name
\*   || obj._node_schema?._malevich_ogm_node?.name || 'UnknownNode'
foundName(obj) ==
    IF "title" \in DOMAIN obj THEN obj.title
    ELSE IF "_node_name" \in DOMAIN obj THEN obj._node_name
    ELSE IF "_malevich_ogm_node" \in DOMAIN obj THEN obj._malevich_ogm_node.name
    ELSE IF "_node_schema" \in DOMAIN obj /\ "_malevich_ogm_node" \in DOMAIN obj._node_schema
    THEN obj._node_schema._malevich_ogm_node.name
    ELSE <<"UnknownNode">>

\* findSchemasRecursive(data, schemas, seen): the objects below the root, outside
\* components and definitions, that carry the node marker and type 'object'.
\* The schemas of a document hold no marked object below them.
found(d) ==
    LET below == IF "flat" \in DOMAIN d THEN d.flat ELSE <<>>
        marked == SelectSeq(below, LAMBDA e : isOgmNode(e.schema))
        typed == SelectSeq(marked, LAMBDA e :
                      "type" \in DOMAIN e.schema /\ e.schema.type = "object")
    IN [i \in 1..Len(typed) |-> [name |-> foundName(typed[i].schema),
                                 schema |-> typed[i].schema]]

\* extractSchemas(data)
extractSchemas(d) ==
    LET s1 == pushUnseen(<<>>, componentsOf(d))
        s2 == pushUnseen(s1, IF "definitions" \in DOMAIN d THEN d.definitions ELSE <<>>)
        s3 == IF "openapi" \notin DOMAIN d /\ "components" \notin DOMAIN d
              THEN pushUnseen(s2, rootEntries(d)) ELSE s2
    IN pushUnseen(s3, found(d))

\* Without(o, ks): delete o.k for every k in ks
Without(o, ks) == [k \in DOMAIN o \ ks |-> o[k]]

RECURSIVE removeReferences(_)

\* removeReferences(obj): every object with a $ref becomes a string schema.
removeReferences(obj) ==
    IF IsUndef(obj) THEN obj
    ELSE IF "ref" \in DOMAIN obj
    THEN [type |-> "string", description |-> "Reference to external schema"]
    ELSE [k \in DOMAIN obj |->
            CASE k = "properties" ->
                    [i \in 1..Len(obj.properties) |->
                        [name |-> obj.properties[i].name,
                         schema |-> removeReferences(obj.properties[i].schema)]]
              [] k \in {"anyOf", "oneOf", "allOf"} ->
                    [i \in 1..Len(obj[k]) |-> removeReferences(obj[k][i])]
              [] k = "items" -> removeReferences(obj.items)
              [] OTHER -> obj[k]]

\* The schema handed to compile: the wrapper when there is one, else the
\* schema itself, without the OGM fields and without references.
cleanSchema(schema) ==
    LET base == IF "_node_schema" \in DOMAIN schema THEN schema._node_schema ELSE schema
    IN removeReferences(Without(base, {"_malevich_ogm_node", "_malevich_ogm_link",
                                       "_node_schema", "_node_name", "$defs"}))

\* ------------------------------------------------------------ documents
StringSchema == TypeOf("string")

Properties ==
    {[name |-> "a", schema |-> t] : t \in {StringSchema, RefTo(<<"L">>), RefTo(<<"A">>)}}
    \cup {[name |-> "b", schema |-> t] : t \in {TypeOf("number"), RefTo(<<"N">>)}}
    \cup {[name |-> "uid", schema |-> StringSchema]}

PropertyLists ==
    {l \in UNION {[1..n -> Properties] : n \in 0..MaxProps} :
        \A i, j \in 1..Len(l) : i # j => l[i].name # l[j].name}

\* What a _node_schema wrapper holds.
WrapperBody == [properties |-> <<[name |-> "w", schema |-> StringSchema]>>, required |-> {"w"}]

\* How a node is marked: on the object, on its wrapper, on both.
Markings == {"outer", "wrapped", "inner", "both"}

NodeMarker(name) == [_malevich_ogm_node |-> [name |-> name]]

Marked(name, m) ==
    CASE m = "outer" -> NodeMarker(name)
      [] m = "wrapped" -> NodeMarker(name) @@ [_node_schema |-> WrapperBody]
      [] m = "inner" -> [_node_schema |-> WrapperBody @@ NodeMarker(name)]
      [] m = "both" -> NodeMarker(name) @@ [_node_schema |-> WrapperBody @@ NodeMarker(name)]

MainSchemas(name) ==
    {[type |-> "object", properties |-> l] @@ Marked(name, m) @@ r @@ a :
        l \in PropertyLists, m \in Markings,
        r \in {EmptyObject, [required |-> {"a"}]},
        a \in {EmptyObject, [additionalProperties |-> TRUE]}}

PlainNode(name, p) ==
    [type |-> "object", properties |-> <<[name |-> p, schema |-> StringSchema]>>]
    @@ NodeMarker(name)

\* The entries beside the main node: two names that differ in a character that
\* sanitizeName replaces, in either order.
Extras ==
    {<<>>,
     <<[name |-> <<"a", "-", "b">>, schema |-> PlainNode(<<"a", "-", "b">>, "x")],
       [name |-> <<"a", "_", "b">>, schema |-> PlainNode(<<"a", "_", "b">>, "y")]>>,
     <<[name |-> <<"a", "_", "b">>, schema |-> PlainNode(<<"a", "_", "b">>, "y")],
       [name |-> <<"a", "-", "b">>, schema |-> PlainNode(<<"a", "-", "b">>, "x")]>>}

EntryLists ==
    {<<[name |-> n, schema |-> m]>> \o e
       \o <<[name |-> <<"L">>, schema |-> LinkSchema], [name |-> <<"A">>, schema |-> a]>> :
       n \in {<<"N">>, <<"Base">>}, m \in MainSchemas(<<"N">>), e \in Extras,
       a \in {StringSchema, RefTo(<<"A">>)}}

\* An OpenAPI document, one that also has definitions, a JSON Schema document
\* with definitions only, and a document with its schemas at the root.
DataOf(e) ==
    {[openapi |-> "3.0", components |-> e],
     [openapi |-> "3.0", components |-> e,
      definitions |-> <<[name |-> <<"N">>, schema |-> PlainNode(<<"N">>, "z")]>>],
     [definitions |-> e],
     [flat |-> e]}

IfaceFrame == UNCHANGED <<fvars, gvars, rvars, prop, result, spc, dvars, nvars, xvars>>

IfaceInit ==
    /\ \E e \in EntryLists : data \in DataOf(e)
    /\ allSchemas = componentsOf(data)
    /\ prop = Undef
    /\ result = Ok(<<>>)
    /\ spc = "idle"
    /\ ogmSchemas = <<>>
    /\ cleaned = <<>>
    /\ output = <<>>
    /\ inext = 1
    /\ ipc = "input"

\* generate: const ogmSchemas = await extractOgmSchemas(data), and the zero check
ExtractOgmSchemas ==
    /\ ipc = "input"
    /\ ogmSchemas' = extractOgmSchemas(componentsOf(data))
    /\ ipc' = IF ogmSchemas' = <<>> THEN "failed" ELSE "generating"
    /\ UNCHANGED <<data, allSchemas, cleaned, output, inext>>
    /\ IfaceFrame

\* generate: one turn of the loop over ogmSchemas
GenerateInterface ==
    /\ ipc = "generating"
    /\ inext <= Len(ogmSchemas)
    /\ LET g == generateInterface(ogmSchemas[inext], allSchemas)
       IN IF g.threw THEN ipc' = "failed" /\ UNCHANGED <<output, inext>>
          ELSE /\ output' = output \o g.code
               /\ inext' = inext + 1
               /\ UNCHANGED ipc
    /\ UNCHANGED <<data, allSchemas, ogmSchemas, cleaned>>
    /\ IfaceFrame

\* generate: return output
ReturnOutput ==
    /\ ipc = "generating"
    /\ inext > Len(ogmSchemas)
    /\ ipc' = "done"
    /\ UNCHANGED <<data, allSchemas, ogmSchemas, cleaned, output, inext>>
    /\ IfaceFrame

\* part_002 generate: const schemas = extractSchemas(data)
ExtractSchemas ==
    /\ ipc = "input"
    /\ ogmSchemas' = extractSchemas(data)
    /\ ipc' = "legacy.extracted"
    /\ UNCHANGED <<data, allSchemas, cleaned, output, inext>>
    /\ IfaceFrame

\* part_002 generate: the filter on the marker, the zero check, and the schema
\* of every node as it is handed to compile
CleanSchemas ==
    /\ ipc = "legacy.extracted"
    /\ LET ogmNodes == SelectSeq(ogmSchemas, LAMBDA e : isOgmNode(e.schema))
       IN /\ cleaned' = [i \in 1..Len(ogmNodes) |->
                            [name |-> ogmNodes[i].name,
                             schema |-> cleanSchema(ogmNodes[i].schema)]]
          /\ ipc' = IF ogmNodes = <<>> THEN "failed" ELSE "legacy.done"
    /\ UNCHANGED <<data, allSchemas, ogmSchemas, output, inext>>
    /\ IfaceFrame

IfaceNext ==
    \/ ExtractOgmSchemas \/ GenerateInterface \/ ReturnOutput
    \/ ExtractSchemas \/ CleanSchemas

\* generate is not called.
IfaceIdle ==
    /\ data = EmptyObject
    /\ ogmSchemas = <<>>
    /\ cleaned = <<>>
    /\ output = <<>>
    /\ inext = 1
    /\ ipc = "idle"

\* No generation run: the state of the run variables under the filter calls.
GenIdle ==
    /\ entry = "generate"
    /\ srcKind = "object"
    /\ env = [load |-> [s \in Sources |-> "ok"], nodes |-> [s \in {"source", "nodes"} |-> 1],
              options |-> [s \in {"source", "resources"} |-> 0], proxies |-> 0,
              assembleOk |-> TRUE, writeOk |-> [x \in Files |-> TRUE], dirOk |-> TRUE]
    /\ gpc = "idle"
    /\ inTry = FALSE
    /\ doc = "source"
    /\ written = {}
    /\ raised = <<>>
    /\ err = NoError
    /\ path = <<>>
    /\ exitCode = -1

\* No filter call: the state of the filter variables under the generation runs.
FilterIdle ==
    /\ heap0 = <<>>
    /\ heap = <<>>
    /\ args = <<>>
    /\ operation = "AND"
    /\ fpc = "idle"
    /\ ret = 0
    /\ ret2 = 0
    /\ wraps = 0

\* ------------------------------------------------------------ part_002: deduplicateTypes
\* A line of the declaration stream.  The name of a declaration is kept in
\* pieces, runs of word characters and single other characters, as for
\* sanitizeName, so that the (\w+) of the patterns is computed.
Line(kind, name, text) == [kind |-> kind, name |-> name, text |-> text]

\* export type <name> = <def>
Alias(name, def) == Line("alias", name, def)

\* export interface <name> {
Header(name) == Line("interface", name, "{")

Text(t) == Line("text", <<>>, t)

Blank == Text("")

\* line.match(/^export type (\w+) = (.+)$/): the name is one run of word characters
typeMatch(line) ==
    line.kind = "alias" /\ Len(line.name) = 1 /\ line.name[1] \notin NonWord /\ line.text # ""

typeName(line) == line.name[1]

typeDefinition(line) == line.text

\* line.startsWith('export interface ')
startsWithExportInterface(line) == line.kind = "interface"

\* line.match(/^export interface (\w+)/): the run of word characters the name starts with
interfaceMatch(line) == line.name # <<>> /\ line.name[1] \notin NonWord

interfaceName(line) == line.name[1]

\* lines[i].match(/^export (interface|type)/)
exportMatch(line) == line.kind \in {"interface", "alias"}

\* Mutant: a later alias line of the same name with another definition.
appearsLaterDiffering(ls, n) ==
    \E j \in (n + 1)..Len(ls) :
        ls[j].kind = "alias" /\ ls[j].name = ls[n].name /\ ls[j].text # ls[n].text

\* remainingContent.match(typePattern): a later line that is this very line
appearsLater(ls, n) == \E j \in (n + 1)..Len(ls) : ls[j] = ls[n]

RECURSIVE skipInterface(_, _)

\* while (i < lines.length && !lines[i].match(/^export (interface|type)/)) i++
skipInterface(ls, n) ==
    IF n <= Len(ls) /\ ~exportMatch(ls[n]) THEN skipInterface(ls, n + 1) ELSE n

NewLine == Line("newline", <<>>, "\n")

RECURSIVE joinLines(_)

\* result.join('\n'): an empty line adds nothing between two newlines
joinLines(ls) ==
    IF ls = <<>> THEN <<>>
    ELSE (IF Head(ls) = Blank THEN <<>> ELSE <<Head(ls)>>)
         \o (IF Len(ls) = 1 THEN <<>> ELSE <<NewLine>> \o joinLines(Tail(ls)))

RECURSIVE squeeze(_, _)

\* .replace(/\n{3,}/g, '\n\n'); n newlines of the run at hand are already out
squeeze(ts, n) ==
    IF ts = <<>> THEN <<>>
    ELSE IF Head(ts) = NewLine
    THEN (IF n >= 2 THEN <<>> ELSE <<NewLine>>) \o squeeze(Tail(ts), n + 1)
    ELSE <<Head(ts)>> \o squeeze(Tail(ts), 0)

\* What compile returns for the nodes: interfaces and single-line aliases.
Declarations ==
    {<<Header(<<"Foo">>), Text("  a: string"), Text("}")>>,
     <<Header(<<"Foo">>), Text("  b: number"), Text("}")>>,
     <<Header(<<"Foo", "$", "Bar">>), Text("  a: string"), Text("}")>>,
     <<Alias(<<"T">>, "string")>>,
     <<Alias(<<"T">>, "number")>>,
     <<Alias(<<"T", "$", "U">>, "string")>>,
     <<Blank>>}

RECURSIVE concat(_)

concat(ss) == IF ss = <<>> THEN <<>> ELSE Head(ss) \o concat(Tail(ss))

\* nodeTypes.join('\n\n').split('\n') for at most MaxDecls declarations
Streams == {concat(ss) : ss \in UNION {[1..n -> Declarations] : n \in 1..MaxDecls}}

DedupeFrame == UNCHANGED <<fvars, gvars, rvars, svars, ivars, nvars, xvars>>

DedupeInit ==
    /\ lines \in Streams
    /\ lineNo = 1
    /\ seenTypes = <<>>
    /\ seenInterfaces = {}
    /\ commonTypeDefinitions = <<>>
    /\ nonCommonLines = <<>>
    /\ deduped = <<>>
    /\ dpc = "loop"

InLoop == dpc = "loop" /\ lineNo <= Len(lines)

\* One turn of the loop on a line that the alias pattern matches.
AliasLine ==
    /\ InLoop
    /\ typeMatch(lines[lineNo])
    /\ LET line == lines[lineNo]
       IN IF mapHas(seenTypes, typeName(line))
          THEN UNCHANGED <<seenTypes, commonTypeDefinitions, nonCommonLines>>
          ELSE /\ seenTypes' = mapSet(seenTypes, typeName(line), typeDefinition(line))
               /\ IF appearsLater(lines, lineNo)
                  THEN /\ commonTypeDefinitions' = Append(commonTypeDefinitions, line)
                       /\ UNCHANGED nonCommonLines
                  ELSE /\ nonCommonLines' = Append(nonCommonLines, line)
                       /\ UNCHANGED commonTypeDefinitions
    /\ lineNo' = lineNo + 1
    /\ UNCHANGED <<lines, seenInterfaces, deduped, dpc>>
    /\ DedupeFrame

\* The header of an interface whose name was seen.
IsSeenInterface(line) ==
    /\ startsWithExportInterface(line)
    /\ interfaceMatch(line)
    /\ interfaceName(line) \in seenInterfaces

\* One turn of the loop on the header of a seen interface: skip it whole.
SkipInterface ==
    /\ InLoop
    /\ ~typeMatch(lines[lineNo])
    /\ IsSeenInterface(lines[lineNo])
    /\ lineNo' = skipInterface(lines, lineNo + 1)
    /\ UNCHANGED <<lines, seenTypes, seenInterfaces, commonTypeDefinitions, nonCommonLines,
                   deduped, dpc>>
    /\ DedupeFrame

\* One turn of the loop on any other line: keep it.
PushLine ==
    /\ InLoop
    /\ ~typeMatch(lines[lineNo])
    /\ ~IsSeenInterface(lines[lineNo])
    /\ seenInterfaces' =
          IF startsWithExportInterface(lines[lineNo]) /\ interfaceMatch(lines[lineNo])
          THEN seenInterfaces \cup {interfaceName(lines[lineNo])} ELSE seenInterfaces
    /\ nonCommonLines' = Append(nonCommonLines, lines[lineNo])
    /\ lineNo' = lineNo + 1
    /\ UNCHANGED <<lines, seenTypes, commonTypeDefinitions, deduped, dpc>>
    /\ DedupeFrame

\* After the loop: the common aliases, an empty line, the other lines.
Combine ==
    /\ dpc = "loop"
    /\ lineNo > Len(lines)
    /\ LET res == IF commonTypeDefinitions # <<>>
                  THEN commonTypeDefinitions \o <<Blank>> \o nonCommonLines
                  ELSE nonCommonLines
       IN deduped' = squeeze(joinLines(res), 0)
    /\ dpc' = "done"
    /\ UNCHANGED <<lines, lineNo, seenTypes, seenInterfaces, commonTypeDefinitions,
                   nonCommonLines>>
    /\ DedupeFrame

DedupeNext == AliasLine \/ SkipInterface \/ PushLine \/ Combine

\* deduplicateTypes is not called.
DedupeIdle ==
    /\ lines = <<>>
    /\ lineNo = 1
    /\ seenTypes = <<>>
    /\ seenInterfaces = {}
    /\ commonTypeDefinitions = <<>>
    /\ nonCommonLines = <<>>
    /\ deduped = <<>>
    /\ dpc = "idle"

\* ------------------------------------------------------------ part_002: inlineAliasTypes
\* A line of the stream as the inline pass reads it: its text is kept in tokens,
\* runs of word characters and marks, so that the \b of the pattern is computed.
Tokens(kind, name, tokens) == [kind |-> kind, name |-> name, tokens |-> tokens]

\* export type <name> = <definition>
AliasOf(name, definition) == Tokens("alias", name, definition)

\* export interface <name> {
HeaderOf(name) == Tokens("interface", name, <<"{">>)

Code(tokens) == Tokens("text", <<>>, tokens)

Marks == NonWord \cup {":", "(", "|", "[]", "{", "}", "/**", "*", "*/"}

\* line.match(/^export type (\w+) = (.*)$/)
aliasMatch(line) == line.kind = "alias" /\ Len(line.name) = 1 /\ line.name[1] \notin Marks

RECURSIVE collectAliases(_, _)

\* The first loop: aliasMap.set(name, definition.trim()) for every alias line.
collectAliases(ls, m) ==
    IF ls = <<>> THEN m
    ELSE collectAliases(Tail(ls),
                        IF aliasMatch(Head(ls))
                        THEN mapSet(m, Head(ls).name[1], Head(ls).tokens) ELSE m)

\* line.trim().startsWith('/**')
startsComment(line) == line.kind = "text" /\ line.tokens # <<>> /\ line.tokens[1] = "/**"

\* contentLines[j].trim().endsWith('*/')
endsComment(line) == line.tokens # <<>> /\ line.tokens[Len(line.tokens)] = "*/"

RECURSIVE commentEnd(_, _)

\* while (j < contentLines.length && !contentLines[j].trim().endsWith('*/')) j++
commentEnd(ls, j) == IF j <= Len(ls) /\ ~endsComment(ls[j]) THEN commentEnd(ls, j + 1) ELSE j

\* if (j < contentLines.length) j++: the line after the block
afterComment(ls, n) == LET j == commentEnd(ls, n) IN IF j <= Len(ls) THEN j + 1 ELSE j

RECURSIVE nextNonEmpty(_, _)

\* while (k < contentLines.length && contentLines[k].trim() === '') k++
nextNonEmpty(ls, k) ==
    IF k <= Len(ls) /\ ls[k].kind = "text" /\ ls[k].tokens = <<>>
    THEN nextNonEmpty(ls, k + 1) ELSE k

\* nextLine.trim().startsWith('export') || /\w+\s*[:(]/.test(nextLine)
isAttached(ls, n) ==
    LET k == nextNonEmpty(ls, afterComment(ls, n))
    IN /\ k <= Len(ls)
       /\ \/ ls[k].kind \in {"interface", "alias"}
          \/ \E i \in 1..(Len(ls[k].tokens) - 1) :
                ls[k].tokens[i] \notin Marks /\ ls[k].tokens[i + 1] \in {":", "("}

RECURSIVE replaceToken(_, _, _)

\* updated.replace(new RegExp(`\\b${name}\\b`, 'g'), def)
replaceToken(tokens, name, def) ==
    IF tokens = <<>> THEN <<>>
    ELSE (IF Head(tokens) = name THEN def ELSE <<Head(tokens)>>)
         \o replaceToken(Tail(tokens), name, def)

RECURSIVE replaceAll(_, _)

\* for (const [name, def] of aliasMap) updated = updated.replace(pattern, def)
replaceAll(tokens, m) ==
    IF m = <<>> THEN tokens
    ELSE replaceAll(replaceToken(tokens, Head(m).key, Head(m).value), Tail(m))

RECURSIVE trimNewLines(_)

\* content.trim(): no newline at either end
trimNewLines(t) ==
    IF t # <<>> /\ Head(t) = NewLine THEN trimNewLines(Tail(t))
    ELSE IF t # <<>> /\ t[Len(t)] = NewLine THEN trimNewLines(SubSeq(t, 1, Len(t) - 1))
    ELSE t

RECURSIVE joinContent(_)

\* contentLines.join('\n'): an empty line adds nothing between two newlines
joinContent(ls) ==
    IF ls = <<>> THEN <<>>
    ELSE (IF Head(ls).kind = "text" /\ Head(ls).tokens = <<>> THEN <<>> ELSE <<Head(ls)>>)
         \o (IF Len(ls) = 1 THEN <<>> ELSE <<NewLine>> \o joinContent(Tail(ls)))

\* What the dedupe pass hands on: aliases, interfaces that use them, an
\* interface that has the name of an alias, comment blocks, lines of code.
Parts ==
    {<<AliasOf(<<"X">>, <<"string", "|", "number">>)>>,
     <<AliasOf(<<"B">>, <<"string">>)>>,
     <<AliasOf(<<"A">>, <<"B", "[]">>)>>,
     <<HeaderOf(<<"Foo">>), Code(<<"a", ":", "X">>), Code(<<"b", ":", "A">>), Code(<<"}">>)>>,
     <<HeaderOf(<<"X">>), Code(<<"c", ":", "X", "|", "X", "[]">>), Code(<<"}">>)>>,
     <<Code(<<"/**">>), Code(<<"*", "X">>), Code(<<"*/">>)>>,
     <<Code(<<"/**", "A", "*/">>)>>,
     <<Code(<<"}">>)>>,
     <<Code(<<>>)>>}

\* The streams of at most MaxDecls parts.
InlineStreams == {concat(ss) : ss \in UNION {[1..n -> Parts] : n \in 1..MaxDecls}}

InlineFrame == UNCHANGED <<fvars, gvars, rvars, svars, ivars, dvars, xvars>>

InlineInit ==
    /\ tsLines \in InlineStreams
    /\ aliasMap = <<>>
    /\ contentLines = <<>>
    /\ idx = 1
    /\ inlined = <<>>
    /\ npc = "input"

\* The first loop: the alias lines go into aliasMap, the others stay.
CollectAliases ==
    /\ npc = "input"
    /\ aliasMap' = collectAliases(tsLines, <<>>)
    /\ contentLines' = SelectSeq(tsLines, LAMBDA l : ~aliasMatch(l))
    /\ npc' = "replace"
    /\ UNCHANGED <<tsLines, idx, inlined>>
    /\ InlineFrame

AtLine == npc = "replace" /\ idx <= Len(contentLines)

IsOrphan(n) == startsComment(contentLines[n]) /\ ~isAttached(contentLines, n)

\* One turn of the second loop on the first line of a comment block that is
\* not attached: contentLines.splice(idx, j - idx); idx--
PruneComment ==
    /\ AtLine
    /\ IsOrphan(idx)
    /\ LET j == afterComment(contentLines, idx)
       IN contentLines' = SubSeq(contentLines, 1, idx - 1)
                          \o SubSeq(contentLines, j, Len(contentLines))
    /\ UNCHANGED <<tsLines, aliasMap, idx, inlined, npc>>
    /\ InlineFrame

\* One turn on an interface declaration line: continue
SkipHeader ==
    /\ AtLine
    /\ ~IsOrphan(idx)
    /\ contentLines[idx].kind = "interface"
    /\ idx' = idx + 1
    /\ UNCHANGED <<tsLines, aliasMap, contentLines, inlined, npc>>
    /\ InlineFrame

\* One turn on any other line: contentLines[idx] = updated
ReplaceLine ==
    /\ AtLine
    /\ ~IsOrphan(idx)
    /\ contentLines[idx].kind # "interface"
    /\ contentLines' = [contentLines EXCEPT
                           ![idx].tokens = replaceAll(contentLines[idx].tokens, aliasMap)]
    /\ idx' = idx + 1
    /\ UNCHANGED <<tsLines, aliasMap, inlined, npc>>
    /\ InlineFrame

\* After the loop: join, collapse the blank lines, trim, end with a newline.
ReturnInlined ==
    /\ npc = "replace"
    /\ idx > Len(contentLines)
    /\ inlined' = Append(trimNewLines(squeeze(joinContent(contentLines), 0)), NewLine)
    /\ npc' = "done"
    /\ UNCHANGED <<tsLines, aliasMap, contentLines, idx>>
    /\ InlineFrame

InlineNext == CollectAliases \/ PruneComment \/ SkipHeader \/ ReplaceLine \/ ReturnInlined

\* inlineAliasTypes is not called.
InlineIdle ==
    /\ tsLines = <<>>
    /\ aliasMap = <<>>
    /\ contentLines = <<>>
    /\ idx = 1
    /\ inlined = <<>>
    /\ npc = "idle"

\* ------------------------------------------------------------ resourceGenerator.ts: the pivot
\* Names are spelled in characters, so that case and underscores are computed;
\* Resource and the names of the mappings tables are spelled in one piece.
toLowerCase(name) ==
    [i \in 1..Len(name) |->
        CASE name[i] = "A" -> "a"
          [] name[i] = "B" -> "b"
          [] name[i] = "Case" -> "case"
          [] name[i] = "Resource" -> "resource"
          [] OTHER -> name[i]]

RECURSIVE underscoreCapitals(_)

\* replace(/([A-Z])/g, '_$1')
underscoreCapitals(name) ==
    IF name = <<>> THEN <<>>
    ELSE (IF Head(name) \in {"A", "B"} THEN <<"_", Head(name)>> ELSE <<Head(name)>>)
         \o underscoreCapitals(Tail(name))

\* replace(/_/g, '')
withoutUnderscores(name) == SelectSeq(name, LAMBDA c : c # "_")

\* A value that is there and is not false, '', 0, null or undefined.
Truthy(o, k) == k \in DOMAIN o /\ o[k] # <<>>

\* typeof fieldSchema === 'object' && fieldSchema !== null
isObject(fieldSchema) == "primitive" \notin DOMAIN fieldSchema

\* ref.includes('ResourceEdge_')
includesResourceEdge(ref) ==
    \E i \in 1..(Len(ref) - 1) : ref[i] = "ResourceEdge" /\ ref[i + 1] = "_"

\* field.$ref && field.$ref.includes('ResourceEdge_')
isEdgeRef(field) == "ref" \in DOMAIN field /\ includesResourceEdge(field.ref)

\* field.anyOf && field.anyOf.some(variant => variant.$ref && variant.$ref.includes('ResourceEdge_'))
isEdgeUnion(field) ==
    "anyOf" \in DOMAIN field /\ \E i \in 1..Len(field.anyOf) : isEdgeRef(field.anyOf[i])

\* inferPivotType(resourceName)
inferPivotType(resourceName) ==
    LET mappings == (<<"BasicCaseResource">> :> <<"Case">>)
                    @@ (<<"MessageResource">> :> <<"ChatMessage">>)
                    @@ (<<"UserSystemLayoutResource">> :> <<"User">>)
                    @@ (<<"TicketDetailResource">> :> <<"Ticket">>)
                    @@ (<<"NotRestrictedTicketDetailResource">> :> <<"Ticket">>)
    IN IF resourceName \in DOMAIN mappings THEN mappings[resourceName]
       ELSE IF resourceName # <<>> /\ resourceName[Len(resourceName)] = "Resource"
       THEN SubSeq(resourceName, 1, Len(resourceName) - 1)
       ELSE resourceName

RECURSIVE inferFrom(_, _)

\* The loop of inferPivotKey over Object.entries(schema.properties).
inferFrom(props, nodeTypeLower) ==
    IF props = <<>> THEN <<>>
    ELSE LET fieldName == Head(props).name
             field == Head(props).schema
             fieldLower == toLowerCase(fieldName)
         IN IF ~isObject(field) \/ isEdgeRef(field) THEN inferFrom(Tail(props), nodeTypeLower)
            ELSE IF fieldLower = nodeTypeLower \/ withoutUnderscores(fieldLower) = nodeTypeLower
            THEN fieldName
            ELSE inferFrom(Tail(props), nodeTypeLower)

\* inferPivotKey(schema, nodeType); null is the empty name
inferPivotKey(schema, nodeType) ==
    IF "properties" \notin DOMAIN schema THEN <<>>
    ELSE inferFrom(schema.properties, toLowerCase(nodeType))

\* resource.meta.info || {}
infoOf(meta) == IF "info" \in DOMAIN meta THEN meta.info ELSE EmptyObject

\* extractResourceMetadata(resource): pivotKey and pivotType
extractResourceMetadata(r) ==
    LET info == infoOf(r.schema._resource)
        pivotType == IF Truthy(info, "pivot_type") THEN info.pivot_type
                     ELSE inferPivotType(r.name)
        inferred == inferPivotKey(r.schema, pivotType)
    IN [pivotType |-> pivotType,
        pivotKey |-> IF Truthy(info, "pivot_key") THEN info.pivot_key
                     ELSE IF inferred # <<>> THEN inferred ELSE <<"uid">>]

\* mapResourceToNodeType(resourceName, schema)
mapResourceToNodeType(resourceName, schema) ==
    LET info == infoOf(schema._resource)
        mappings == (<<"BasicCaseResource">> :> <<"Case">>)
                    @@ (<<"MessageResource">> :> <<"ChatMessage">>)
                    @@ (<<"UserSystemLayoutResource">> :> <<"User">>)
                    @@ (<<"CaseChangeResource">> :> <<"CaseChange">>)
                    @@ (<<"TicketChangeResource">> :> <<"TicketChange">>)
                    @@ (<<"CommentResource">> :> <<"Comment">>)
                    @@ (<<"ContactResource">> :> <<"Contact">>)
                    @@ (<<"SiteResource">> :> <<"Site">>)
                    @@ (<<"OrganizationResource">> :> <<"Organization">>)
                    @@ (<<"ClientCompanyResource">> :> <<"ClientCompany">>)
                    @@ (<<"ClientCompanyInfo">> :> <<"ClientCompany">>)
                    @@ (<<"CaseCategoryResource">> :> <<"CaseCategory">>)
                    @@ (<<"CaseTypeResource">> :> <<"CaseType">>)
                    @@ (<<"TicketTypeResource">> :> <<"TicketType">>)
                    @@ (<<"ChatResource">> :> <<"Chat">>)
                    @@ (<<"InvitationResource">> :> <<"Invitation">>)
                    @@ (<<"TicketDetailResource">> :> <<"Ticket">>)
                    @@ (<<"NotRestrictedTicketDetailResource">> :> <<"Ticket">>)
                    @@ (<<"TicketResource">> :> <<"Ticket">>)
                    @@ (<<"UserOrganizationResource">> :> <<"Organization">>)
    IN IF Truthy(info, "pivot_type") THEN info.pivot_type
       ELSE IF resourceName \in DOMAIN mappings THEN mappings[resourceName]
       ELSE IF resourceName # <<>> /\ resourceName[Len(resourceName)] = "Resource"
       THEN SubSeq(resourceName, 1, Len(resourceName) - 1)
       ELSE resourceName

RECURSIVE findMatching(_, _)

\* The first loop of findPivotField: a field whose name matches the node type.
findMatching(props, nodeType) ==
    IF props = <<>> THEN <<>>
    ELSE LET fieldName == Head(props).name
             field == Head(props).schema
             fieldLower == toLowerCase(fieldName)
             nodeLower == toLowerCase(nodeType)
         IN IF ~isObject(field) \/ isEdgeRef(field) \/ isEdgeUnion(field)
            THEN findMatching(Tail(props), nodeType)
            ELSE IF \/ fieldLower = nodeLower
                    \/ fieldLower = toLowerCase(underscoreCapitals(nodeLower))
                    \/ withoutUnderscores(fieldLower) = nodeLower
            THEN fieldName
            ELSE findMatching(Tail(props), nodeType)

RECURSIVE findFirst(_)

\* The second loop of findPivotField: the first field that is no ResourceEdge.
findFirst(props) ==
    IF props = <<>> THEN <<>>
    ELSE IF ~isObject(Head(props).schema) \/ isEdgeRef(Head(props).schema)
            \/ isEdgeUnion(Head(props).schema)
    THEN findFirst(Tail(props))
    ELSE Head(props).name

\* findPivotField(schema, nodeType); null is the empty name
findPivotField(schema, nodeType) ==
    LET info == infoOf(schema._resource)
    IN IF Truthy(info, "pivot_key") THEN info.pivot_key
       ELSE IF "properties" \notin DOMAIN schema THEN <<>>
       ELSE IF findMatching(schema.properties, nodeType) # <<>>
       THEN findMatching(schema.properties, nodeType)
       ELSE findFirst(schema.properties)

\* generateResources of lines 17-80: pivotType and pivotKey of a proxy schema
legacyPivot(r) ==
    LET info == infoOf(r.schema._resource)
        pivotType == IF Truthy(info, "pivot_type") THEN info.pivot_type
                     ELSE mapResourceToNodeType(r.name, r.schema)
        field == findPivotField(r.schema, pivotType)
    IN [pivotType |-> pivotType,
        pivotKey |-> IF Truthy(info, "pivot_key") THEN info.pivot_key
                     ELSE IF field # <<>> THEN field ELSE <<"uid">>]

\* The resources: their names, the info of their markers, their fields.
EntryNames == {<<"A", "B", "Resource">>, <<"A", "B">>, <<"BasicCaseResource">>}

Infos ==
    {EmptyObject, [pivot_key |-> <<"k">>], [pivot_key |-> <<>>],
     [pivot_type |-> <<"A", "_", "B">>], [pivot_type |-> <<"A", "_", "B">>, pivot_key |-> <<"k">>]}

Markers == {[type |-> "proxy"]} \cup {[type |-> "proxy", info |-> i] : i \in Infos}

FieldNames == {<<"a", "b">>, <<"a", "_", "b">>, <<"A", "B">>, <<"x">>}

FieldSchemas ==
    {TypeOf("string"), RefTo(<<"ResourceEdge", "_", "X">>),
     AnyOf(<<RefTo(<<"ResourceEdge", "_", "X">>), TypeOf("null")>>), [primitive |-> TRUE]}

Fields == {[name |-> n, schema |-> f] : n \in FieldNames, f \in FieldSchemas}

FieldLists ==
    {l \in UNION {[1..n -> Fields] : n \in 0..MaxProps} :
        \A i, j \in 1..Len(l) : i # j => l[i].name # l[j].name}

ResourceEntities ==
    {[name |-> n, schema |-> [_resource |-> m]] : n \in EntryNames, m \in Markers}
    \cup {[name |-> n, schema |-> [_resource |-> m, properties |-> l]] :
             n \in EntryNames, m \in Markers, l \in FieldLists}

PivotFrame == UNCHANGED <<fvars, gvars, rvars, svars, ivars, dvars, nvars, avars, vvars>>

NoPivot == [pivotType |-> <<>>, pivotKey |-> <<>>]

PivotInit ==
    /\ resource \in ResourceEntities
    /\ pivot = NoPivot
    /\ ppc = "input"

\* generateAbstractResources: const { pivotKey, pivotType } = extractResourceMetadata(resource)
ExtractResourceMetadata ==
    /\ ppc = "input"
    /\ pivot' = extractResourceMetadata(resource)
    /\ ppc' = "metadata"
    /\ UNCHANGED resource
    /\ PivotFrame

\* generateResources of lines 17-80: lines 44 and 45
LegacyPivot ==
    /\ ppc = "input"
    /\ pivot' = legacyPivot(resource)
    /\ ppc' = "legacy"
    /\ UNCHANGED resource
    /\ PivotFrame

PivotNext == ExtractResourceMetadata \/ LegacyPivot

\* No pivot is resolved.
PivotIdle ==
    /\ resource = EmptyObject
    /\ pivot = NoPivot
    /\ ppc = "idle"

\* ------------------------------------------------------------ resourceGenerator.ts: assembly
\* null; an object's entries are kept in their order, as Object.entries gives them.
Null == [null |-> TRUE]

\* A mount with every field of ResourceMount.
Mount ==
    [is_resource |-> FALSE, is_foreign |-> FALSE, is_array |-> TRUE, pivot_type |-> <<"T">>,
     relation_type |-> <<"r">>, relation_name |-> <<"n">>, relation_model |-> <<"L">>]

\* name.replace(/[^a-zA-Z0-9_]/g, '')
stripName(name) == SelectSeq(name, LAMBDA c : c \notin NonWord)

RECURSIVE extractResourceSchemas(_)

\* extractResourceSchemas(data): the entries of components.schemas with a _resource
extractResourceSchemas(entries) ==
    IF entries = <<>> THEN <<>>
    ELSE (IF "_resource" \in DOMAIN Head(entries).schema
          THEN <<[name |-> stripName(Head(entries).name), schema |-> Head(entries).schema,
                  meta |-> Head(entries).schema._resource]>>
          ELSE <<>>)
         \o extractResourceSchemas(Tail(entries))

\* Mutant: every resource schema is taken for a proxy.
isProxyAny(r) == TRUE

\* r => r.meta.type === 'proxy'
isProxy(r) == r.meta.type = "proxy"

\* info.mounts || {}; the mounts that are there are an object
mountsOf(info) == IF "mounts" \in DOMAIN info THEN info.mounts ELSE <<>>

\* The body of the mount loop of generateAbstractResources reads mountInfo.pivot_type.
mountThrows(mounts) == \E i \in 1..Len(mounts) : mounts[i].value \in {Null, Undef}

\* mountDefs: Mount<mountType, linkType, isArray>
mountDefs(mounts) ==
    [i \in 1..Len(mounts) |->
        LET mountInfo == mounts[i].value
        IN [name |-> mounts[i].name,
            mountType |-> IF Truthy(mountInfo, "pivot_type") THEN mountInfo.pivot_type
                          ELSE <<"any">>,
            linkType |-> IF Truthy(mountInfo, "relation_model") THEN mountInfo.relation_model
                         ELSE <<"Link">>,
            isArray |-> "is_array" \in DOMAIN mountInfo /\ mountInfo.is_array = TRUE]]

\* export interface <name> extends AbstractResource<'<pivotKey>', <pivotType>, <mountsBlock>> {}
abstractType(r) ==
    [name |-> r.name,
     pivotKey |-> extractResourceMetadata(r).pivotKey,
     pivotType |-> extractResourceMetadata(r).pivotType,
     mounts |-> mountDefs(mountsOf(infoOf(r.meta)))]

\* generateAbstractResources(resources): abstractTypes
generateAbstractResources(resources) == [i \in 1..Len(resources) |-> abstractType(resources[i])]

\* The ResourceOptions built from a direct resource info.
optionsFrom(resourceInfo) ==
    [info |->
        [k \in ({"name", "pivot_key", "pivot_type"} \cap DOMAIN resourceInfo)
               \cup {"mounts", "computed"} |->
            IF k \in {"mounts", "computed"}
            THEN (IF k \in DOMAIN resourceInfo THEN resourceInfo[k] ELSE <<>>)
            ELSE resourceInfo[k]]]

RECURSIVE optionsOfArray(_, _)

\* The array format: every resourceInfo with a name is set.
optionsOfArray(m, infos) ==
    IF infos = <<>> THEN m
    ELSE optionsOfArray(IF Truthy(Head(infos), "name")
                        THEN mapSet(m, Head(infos).name, optionsFrom(Head(infos)))
                        ELSE m,
                        Tail(infos))

\* What one x-nova-resource value adds to a Map of options.
optionsOfRoute(m, xNovaResource) ==
    IF "array" \in DOMAIN xNovaResource THEN optionsOfArray(m, xNovaResource.array)
    ELSE IF "info" \in DOMAIN xNovaResource /\ Truthy(xNovaResource.info, "name")
    THEN mapSet(m, xNovaResource.info.name, xNovaResource)
    ELSE IF Truthy(xNovaResource, "name")
    THEN mapSet(m, xNovaResource.name, optionsFrom(xNovaResource))
    ELSE m

RECURSIVE extractResourceOptionsFromRoutes(_, _)

\* extractResourceOptionsFromRoutes(data), on the Map it returns and on the singleton's
extractResourceOptionsFromRoutes(m, routes) ==
    IF routes = <<>> THEN m
    ELSE extractResourceOptionsFromRoutes(optionsOfRoute(m, Head(routes)), Tail(routes))

\* The documents: schema entries, with or without a marker, and routes.
AssemblyNames == {<<"P">>, <<"Q", "-", "R">>}

WellFormed(n) == [name |-> n, pivot_key |-> <<"k">>, pivot_type |-> <<"T">>]

AssemblyMarkers ==
    {[type |-> t] : t \in {"proxy", "create", "update", "link"}}
    \cup {[type |-> "proxy", info |-> WellFormed(<<"P">>)],
          [type |-> "proxy",
           info |-> [name |-> <<"P">>, mounts |-> <<[name |-> "m", value |-> Mount]>>]],
          [type |-> "proxy",
           info |-> [name |-> <<"P">>, pivot_key |-> <<"k">>, pivot_type |-> <<"T">>,
                     mounts |-> <<[name |-> "m", value |-> Null]>>]]}

SchemaEntries ==
    {[name |-> n, schema |-> TypeOf("object")] : n \in AssemblyNames}
    \cup {[name |-> n, schema |-> [type |-> "object", _resource |-> m]] :
             n \in AssemblyNames, m \in AssemblyMarkers}

SchemaEntryLists ==
    {l \in UNION {[1..n -> SchemaEntries] : n \in 0..MaxEntries} :
        \A i, j \in 1..Len(l) : i # j => l[i].name # l[j].name}

Routes ==
    {WellFormed(<<"P">>), [name |-> <<"Q">>], [pivot_key |-> <<"k">>],
     [info |-> WellFormed(<<"P">>) @@ [mounts |-> <<>>, computed |-> <<>>]],
     [info |-> [name |-> <<"Q">>]],
     [array |-> <<[name |-> <<"Q">>, pivot_type |-> <<"T">>], WellFormed(<<"P">>)>>]}

RouteLists == UNION {[1..n -> Routes] : n \in 0..MaxRoutes}

AssemblyFrame == UNCHANGED <<fvars, gvars, rvars, svars, ivars, dvars, nvars, pvars, vvars>>

AssemblyInit ==
    /\ adoc \in {[schemas |-> e, routes |-> r] : e \in SchemaEntryLists, r \in RouteLists}
    /\ resourceOptions = <<>>
    /\ registered = <<>>
    /\ abstractTypes = <<>>
    /\ apc = "loaded"

\* const resourceOptions = extractResourceOptionsFromRoutes(data)
ExtractResourceOptions ==
    /\ apc = "loaded"
    /\ resourceOptions' = extractResourceOptionsFromRoutes(<<>>, adoc.routes)
    /\ registered' = extractResourceOptionsFromRoutes(registered, adoc.routes)
    /\ apc' = "options"
    /\ UNCHANGED <<adoc, abstractTypes>>
    /\ AssemblyFrame

\* extractResourceSchemas, the proxy filter, its early return, generateAbstractResources
GenerateAbstractResources ==
    /\ apc = "options"
    /\ LET proxyResources == SelectSeq(extractResourceSchemas(adoc.schemas), isProxy)
       IN IF proxyResources = <<>>
          THEN apc' = "returned" /\ UNCHANGED abstractTypes
          ELSE IF \E i \in 1..Len(proxyResources) :
                     mountThrows(mountsOf(infoOf(proxyResources[i].meta)))
          THEN apc' = "failed" /\ UNCHANGED abstractTypes
          ELSE /\ abstractTypes' = generateAbstractResources(proxyResources)
               /\ apc' = "written"
    /\ UNCHANGED <<adoc, resourceOptions, registered>>
    /\ AssemblyFrame

AssemblyNext == ExtractResourceOptions \/ GenerateAbstractResources

\* No document is assembled.
AssemblyIdle ==
    /\ adoc = EmptyObject
    /\ resourceOptions = <<>>
    /\ registered = <<>>
    /\ abstractTypes = <<>>
    /\ apc = "idle"

\* ------------------------------------------------------------ options.ts: validation
\* The values of the options validated, each with its type.
Str(v) == [string |-> v]

Bool(v) == [boolean |-> v]

Object(entries) == [entries |-> entries]

\* typeof v
typeof(v) ==
    IF "string" \in DOMAIN v THEN "string"
    ELSE IF "boolean" \in DOMAIN v THEN "boolean"
    ELSE IF v = Undef THEN "undefined"
    ELSE "object"

\* !o[k]: the field is not there, or is null, '' or false
Falsy(o, k) == k \notin DOMAIN o \/ o[k] \in {Null, Undef, Str(<<>>), Bool(FALSE)}

\* typeof o[k] === 'object' && o[k] !== null
isObjectAt(o, k) == k \in DOMAIN o /\ typeof(o[k]) = "object" /\ o[k] # Null

\* typeof mount[k] === t
isTypeAt(o, k, t) == k \in DOMAIN o /\ typeof(o[k]) = t

\* validateResourceMount(mount)
validateResourceMount(mount) ==
    /\ isTypeAt(mount, "is_resource", "boolean")
    /\ isTypeAt(mount, "is_foreign", "boolean")
    /\ isTypeAt(mount, "is_array", "boolean")
    /\ isTypeAt(mount, "pivot_type", "string")
    /\ isTypeAt(mount, "relation_type", "string")
    /\ isTypeAt(mount, "relation_name", "string")
    /\ isTypeAt(mount, "relation_model", "string")

RECURSIVE validateMounts(_)

\* The loop over Object.entries(info.mounts): false at the first mount that is
\* not valid, a TypeError at a mount that is null or undefined.
validateMounts(mounts) ==
    IF mounts = <<>> THEN [threw |-> FALSE, value |-> TRUE]
    ELSE IF Head(mounts).value \in {Null, Undef} THEN [threw |-> TRUE, value |-> FALSE]
    ELSE IF ~validateResourceMount(Head(mounts).value) THEN [threw |-> FALSE, value |-> FALSE]
    ELSE validateMounts(Tail(mounts))

\* validateResourceOptions(options)
validateResourceOptions(o) ==
    IF "info" \notin DOMAIN o THEN [threw |-> FALSE, value |-> FALSE]
    ELSE IF Falsy(o.info, "name") \/ Falsy(o.info, "pivot_key") \/ Falsy(o.info, "pivot_type")
    THEN [threw |-> FALSE, value |-> FALSE]
    ELSE IF ~isObjectAt(o.info, "mounts") THEN [threw |-> FALSE, value |-> FALSE]
    ELSE IF ~isObjectAt(o.info, "computed") THEN [threw |-> FALSE, value |-> FALSE]
    ELSE validateMounts(o.info.mounts.entries)

\* The options validated: every field there or not, empty or not, of its type or not.
Requireds == [{"name", "pivot_key", "pivot_type"} -> {"absent", "empty", "set"}]

ValidMount ==
    [is_resource |-> Bool(FALSE), is_foreign |-> Bool(FALSE), is_array |-> Bool(TRUE),
     pivot_type |-> Str(<<"T">>), relation_type |-> Str(<<"r">>),
     relation_name |-> Str(<<"n">>), relation_model |-> Str(<<"L">>)]

MountMaps ==
    {Object(<<>>), Object(<<[name |-> "m", value |-> ValidMount]>>),
     Object(<<[name |-> "m", value |-> Null]>>),
     Object(<<[name |-> "m", value |-> [ValidMount EXCEPT !.is_array = Str(<<"yes">>)]]>>),
     Object(<<[name |-> "m", value |-> [ValidMount EXCEPT !.relation_model = Bool(TRUE)]]>>),
     Object(<<[name |-> "m", value |-> [is_resource |-> Bool(TRUE)]]>>),
     Object(<<[name |-> "m", value |-> ValidMount], [name |-> "n", value |-> Null]>>),
     Str(<<"m">>), Null}

Others == {"absent", "null", "object"}

\* The info with the fields a choice names.
InfoWith(r, mounts, computed) ==
    [k \in {f \in DOMAIN r : r[f] # "absent"}
           \cup (IF mounts = Undef THEN {} ELSE {"mounts"})
           \cup (IF computed = "absent" THEN {} ELSE {"computed"}) |->
        IF k = "mounts" THEN mounts
        ELSE IF k = "computed" THEN (IF computed = "null" THEN Null ELSE Object(<<>>))
        ELSE IF r[k] = "empty" THEN Str(<<>>) ELSE Str(<<"v">>)]

Candidates ==
    {EmptyObject}
    \cup {[info |-> InfoWith(r, m, c)] :
             r \in Requireds, m \in MountMaps \cup {Undef}, c \in Others}

ValidationFrame == UNCHANGED <<fvars, gvars, rvars, svars, ivars, dvars, nvars, pvars, avars>>

NoVerdict == [threw |-> FALSE, value |-> FALSE]

ValidationInit ==
    /\ candidate \in Candidates
    /\ verdict = NoVerdict
    /\ vpc = "called"

\* validateResourceOptions(options) returns
ValidateReturns ==
    /\ vpc = "called"
    /\ ~validateResourceOptions(candidate).threw
    /\ verdict' = validateResourceOptions(candidate)
    /\ vpc' = "returned"
    /\ UNCHANGED candidate
    /\ ValidationFrame

\* validateResourceOptions(options) throws the TypeError of validateResourceMount
ValidateThrows ==
    /\ vpc = "called"
    /\ validateResourceOptions(candidate).threw
    /\ verdict' = validateResourceOptions(candidate)
    /\ vpc' = "threw"
    /\ UNCHANGED candidate
    /\ ValidationFrame

ValidationNext == ValidateReturns \/ ValidateThrows

\* No options are validated.
ValidationIdle ==
    /\ candidate = EmptyObject
    /\ verdict = NoVerdict
    /\ vpc = "idle"

\* None of the resource passes runs.
ResourcesIdle == PivotIdle /\ AssemblyIdle /\ ValidationIdle

InitGen == GenInit /\ FilterIdle /\ RegistryInit /\ SynthIdle /\ IfaceIdle /\ DedupeIdle /\ InlineIdle /\ ResourcesIdle

SpecGen == InitGen /\ [][GenNext]_vars

InitFilter == FilterInit /\ GenIdle /\ RegistryInit /\ SynthIdle /\ IfaceIdle /\ DedupeIdle /\ InlineIdle /\ ResourcesIdle

SpecFilter == InitFilter /\ [][FilterNext]_vars

InitRegistry == RegistryInit /\ FilterIdle /\ GenIdle /\ SynthIdle /\ IfaceIdle /\ DedupeIdle /\ InlineIdle /\ ResourcesIdle

InitSynth == SynthInit /\ FilterIdle /\ GenIdle /\ RegistryInit /\ IfaceIdle /\ DedupeIdle /\ InlineIdle /\ ResourcesIdle

SpecSynth == InitSynth /\ [][SynthNext]_vars

InitIface == IfaceInit /\ FilterIdle /\ GenIdle /\ RegistryInit /\ DedupeIdle /\ InlineIdle /\ ResourcesIdle

InitDedupe ==
    /\ DedupeInit /\ FilterIdle /\ GenIdle /\ RegistryInit /\ SynthIdle /\ IfaceIdle
    /\ InlineIdle /\ ResourcesIdle

InitInline ==
    /\ InlineInit /\ FilterIdle /\ GenIdle /\ RegistryInit /\ SynthIdle /\ IfaceIdle
    /\ DedupeIdle /\ ResourcesIdle

\* Everything but the resource passes is idle.
OthersIdle ==
    /\ FilterIdle /\ GenIdle /\ RegistryInit /\ SynthIdle /\ IfaceIdle /\ DedupeIdle
    /\ InlineIdle

InitPivot == PivotInit /\ OthersIdle /\ AssemblyIdle /\ ValidationIdle

InitAssembly == AssemblyInit /\ OthersIdle /\ PivotIdle /\ ValidationIdle

SpecAssembly == InitAssembly /\ [][AssemblyNext]_vars

InitValidation == ValidationInit /\ OthersIdle /\ PivotIdle /\ AssemblyIdle

SpecValidation == InitValidation /\ [][ValidationNext]_vars

SpecPivot == InitPivot /\ [][PivotNext]_vars

SpecInline == InitInline /\ [][InlineNext]_vars

SpecDedupe == InitDedupe /\ [][DedupeNext]_vars

SpecIface == InitIface /\ [][IfaceNext]_vars

SpecRegistry == InitRegistry /\ [][RegistryNext]_vars

\* ------------------------------------------------------------ filter claims
Result == Decode(heap, ret)

Arg(i) == Decode(heap0, args[i])

IsRF(v) == ~IsUndef(v) /\ "type" \notin DOMAIN v /\ "subresources" \notin DOMAIN v

IsSF(v) == "subresources" \in DOMAIN v

IsComposite(v) == IsRF(v) \/ IsSF(v)

IsLeaf(v) == "type" \in DOMAIN v /\ v.type \in {"match", "match_edge", "join", "exists"}

IsAbsent(v) == IsUndef(v) \/ v = NoFilter

\* The value of merge(x, y) for two references of the starting heap.
MergedValue(x, y) == LET m == mergeCall(heap0, x, y, "AND") IN Decode(m.heap, m.ret)

\* Value v with its $filter key set to f and every other key as it was.
WithFilter(v, f) == [k \in DOMAIN v \cup {"filter"} |-> IF k = "filter" THEN f ELSE v[k]]

FilterRef(i) == Get(heap0[args[i]], "filter")

MapRef(i) == Get(heap0[args[i]], "subresources")

MapKeys(i) == IF MapRef(i) = 0 THEN {} ELSE DOMAIN heap0[MapRef(i)]

\* C1: merge(Empty, F) and merge(F, Empty) return F, unchanged, for every filter
\* tree F, and so do merge(undefined, F) and merge(F, undefined): the result is one
\* of the operand objects, no new one, and it has the value of F (it is F itself
\* unless F is Empty too, when it may be the other Empty).
C1_EmptyIsIdentity ==
    fpc = "merge" =>
        /\ (IsAbsent(Arg(1)) /\ ~IsUndef(Arg(2))) =>
              /\ Result = Arg(2)
              /\ ret = args[2] \/ (Arg(2) = NoFilter /\ ret = args[1])
        /\ (IsAbsent(Arg(2)) /\ ~IsUndef(Arg(1))) =>
              /\ Result = Arg(1)
              /\ ret = args[1] \/ (Arg(1) = NoFilter /\ ret = args[2])

C1_Witness ==
    /\ fpc = "merge"
    /\ IsUndef(Arg(1))
    /\ IsSF(Arg(2)) /\ MapKeys(2) # {}
    /\ Result = Arg(2)

\* C2: two composites of the same kind merge into a composite of that kind whose
\* $filter is merge(a.$filter, b.$filter); for two SubresourceFilters the keys of
\* the result's $subresources are the union of both key sets, a key of both maps
\* to the merge of the two values and a key of one side to that side's value.
C2_SameKind ==
    fpc = "merge" =>
        /\ (IsRF(Arg(1)) /\ IsRF(Arg(2))) =>
              Result = WithFilter(Arg(1), MergedValue(FilterRef(1), FilterRef(2)))
        /\ (IsSF(Arg(1)) /\ IsSF(Arg(2))) =>
              /\ IsSF(Result)
              /\ Result.filter = MergedValue(FilterRef(1), FilterRef(2))
              /\ IF MapRef(1) = 0 /\ MapRef(2) = 0 THEN IsUndef(Result.subresources)
                 ELSE /\ DOMAIN Result.subresources = MapKeys(1) \cup MapKeys(2)
                      /\ \A k \in MapKeys(1) \cap MapKeys(2) :
                            Result.subresources[k] =
                                MergedValue(heap0[MapRef(1)][k], heap0[MapRef(2)][k])
                      /\ \A k \in MapKeys(1) \ MapKeys(2) :
                            Result.subresources[k] = Arg(1).subresources[k]
                      /\ \A k \in MapKeys(2) \ MapKeys(1) :
                            Result.subresources[k] = Arg(2).subresources[k]

C2_Witness ==
    /\ fpc = "merge"
    /\ IsSF(Arg(1)) /\ IsSF(Arg(2))
    /\ MapKeys(1) \ MapKeys(2) # {}
    /\ MapKeys(2) \ MapKeys(1) # {}
    /\ DOMAIN Result.subresources = MapKeys(1) \cup MapKeys(2)

\* C3: a composite merged with a non-empty leaf or composite gives a composite in
\* either operand order: ResourceFilter with SubresourceFilter is the
\* SubresourceFilter with $filter = merge of both inner filters, and a composite
\* with a leaf is that composite with the leaf merged into its $filter.
C3_CompositeShape ==
    fpc = "merge" =>
        LET a == Arg(1)
            b == Arg(2)
        IN /\ ((IsComposite(a) /\ (IsLeaf(b) \/ IsComposite(b)))
                \/ (IsComposite(b) /\ (IsLeaf(a) \/ IsComposite(a)))) => IsComposite(Result)
           /\ (IsRF(a) /\ IsSF(b)) =>
                 Result = WithFilter(b, MergedValue(FilterRef(1), FilterRef(2)))
           /\ (IsSF(a) /\ IsRF(b)) =>
                 Result = WithFilter(a, MergedValue(FilterRef(1), FilterRef(2)))
           /\ (IsComposite(a) /\ IsLeaf(b)) =>
                 Result = WithFilter(a, MergedValue(FilterRef(1), args[2]))
           /\ (IsLeaf(a) /\ IsComposite(b)) =>
                 Result = WithFilter(b, MergedValue(args[1], FilterRef(2)))

C3_Witness ==
    /\ fpc = "merge"
    /\ IsLeaf(Arg(1)) /\ Arg(1).type = "exists"
    /\ IsSF(Arg(2)) /\ MapKeys(2) # {} /\ FilterRef(2) # 0
    /\ IsSF(Result)
    /\ Result.subresources = Arg(2).subresources

\* C4: a call of merge or combine leaves every object that existed before it as it
\* was: the operands and all their sub-trees, $subresources maps included.
C4_OperandsUntouched ==
    fpc # "input" =>
        /\ Len(heap) >= Len(heap0)
        /\ \A i \in 1..Len(heap0) : heap[i] = heap0[i]
        /\ \A i \in 1..Len(args) : Decode(heap, args[i]) = Arg(i)

C4_Witness ==
    /\ fpc = "merge"
    /\ IsSF(Arg(1)) /\ IsSF(Arg(2))
    /\ MapKeys(1) \cap MapKeys(2) # {}
    /\ Len(heap) > Len(heap0)
    /\ \A i \in 1..Len(heap0) : heap[i] = heap0[i]

RECURSIVE LeftFold(_)

\* merge(...merge(merge(f1, f2), f3)..., fn) on the starting heap, for n >= 1:
\* the fold of the first n - 1 filters merged with the last.
LeftFold(refs) ==
    IF Len(refs) = 1 THEN [heap |-> heap0, ret |-> refs[1]]
    ELSE LET front == LeftFold(SubSeq(refs, 1, Len(refs) - 1))
             m == mergeCall(front.heap, front.ret, refs[Len(refs)], "AND")
         IN [heap |-> m.heap, ret |-> m.ret]

\* C5: combine() is Empty, combine(F) is F itself, and combine(f1, ..., fn) for
\* n >= 2 is the left fold merge(...merge(merge(f1, f2), f3)..., fn) under AND.
C5_Combine ==
    fpc = "combine" =>
        /\ Len(args) = 0 => Result = NoFilter
        /\ Len(args) = 1 => (ret = args[1] /\ Result = Arg(1))
        /\ Len(args) >= 2 =>
              LET f == LeftFold(args) IN Result = Decode(f.heap, f.ret)

C5_Witness ==
    /\ fpc = "combine"
    /\ Len(args) = 3
    /\ \A i \in 1..3 : IsLeaf(Arg(i))
    /\ Result = JoinV("AND", <<JoinV("AND", <<Arg(1), Arg(2)>>), Arg(3)>>)

RECURSIVE FlattenAnd(_)
RECURSIVE FlattenAll(_)

\* The clauses of v with the AND Joins nested in AND Joins dissolved, in order.
FlattenAnd(v) ==
    IF "type" \in DOMAIN v /\ v.type = "join" /\ v.operation = "AND"
    THEN FlattenAll(v.clauses)
    ELSE <<v>>

FlattenAll(vs) == IF vs = <<>> THEN <<>> ELSE FlattenAnd(Head(vs)) \o FlattenAll(Tail(vs))

LeafOnly == \A i \in 1..Len(args) : IsLeaf(Arg(i))

\* C6 as stated: for leaves A, B, C the trees merge(merge(A, B), C) and
\* merge(A, merge(B, C)) are structurally equal.
C6_Original ==
    (fpc = "assoc" /\ LeafOnly) => Result = Decode(heap, ret2)

\* C6 amended: for leaves A, B, C the two trees are AND Joins that nest
\* differently, Join[Join[A, B], C] and Join[A, Join[B, C]], and that have the
\* same clauses once nested AND Joins are dissolved: those of A, of B and of C.
C6_AssocUpToNesting ==
    (fpc = "assoc" /\ LeafOnly) =>
        /\ Result = JoinV("AND", <<JoinV("AND", <<Arg(1), Arg(2)>>), Arg(3)>>)
        /\ Decode(heap, ret2) = JoinV("AND", <<Arg(1), JoinV("AND", <<Arg(2), Arg(3)>>)>>)
        /\ FlattenAnd(Result) = FlattenAll(<<Arg(1), Arg(2), Arg(3)>>)
        /\ FlattenAnd(Decode(heap, ret2)) = FlattenAnd(Result)

C6_Witness ==
    /\ fpc = "assoc"
    /\ LeafOnly
    /\ Arg(1).type = "join" /\ Arg(1).operation = "AND"
    /\ Result # Decode(heap, ret2)
    /\ FlattenAnd(Decode(heap, ret2)) = FlattenAnd(Result)

RECURSIVE Depth(_)
RECURSIVE MaxDepth(_)

\* The number of filter objects on the longest path from v down; undefined is 0.
Depth(v) ==
    IF IsUndef(v) THEN 0
    ELSE 1 + MaxDepth({v[k] : k \in DOMAIN v \cap {"filter"}}
                      \cup (IF "clauses" \in DOMAIN v
                            THEN {v.clauses[i] : i \in 1..Len(v.clauses)} ELSE {})
                      \cup (IF "subresources" \in DOMAIN v /\ ~IsUndef(v.subresources)
                            THEN {v.subresources[k] : k \in DOMAIN v.subresources}
                            ELSE {}))

MaxDepth(S) ==
    IF S = {} THEN 0
    ELSE LET v == CHOOSE x \in S : TRUE
             d == Depth(v)
             m == MaxDepth(S \ {v})
         IN IF d > m THEN d ELSE m

Larger(m, n) == IF m > n THEN m ELSE n

BothTrees == ~IsUndef(Arg(1)) /\ ~IsUndef(Arg(2))

\* C7 as stated: when merge(a, b) wraps no two leaves in a Join, the result is
\* no deeper than the deeper of a and b.
C7_Original ==
    (fpc = "merge" /\ BothTrees /\ wraps = 0) =>
        Depth(Result) <= Larger(Depth(Arg(1)), Depth(Arg(2)))

\* C7 amended: Join wrapping is not the only step that deepens the tree, a leaf
\* merged into a composite descends to the end of its $filter chain; when
\* merge(a, b) wraps no two leaves the result is no deeper than depth(a) +
\* depth(b), and the wrapping of two leaves is exactly one deeper than the deeper.
C7_DepthBound ==
    (fpc = "merge" /\ BothTrees) =>
        /\ wraps = 0 => Depth(Result) <= Depth(Arg(1)) + Depth(Arg(2))
        /\ (IsLeaf(Arg(1)) /\ IsLeaf(Arg(2))) =>
              (wraps = 1 /\ Depth(Result) = 1 + Larger(Depth(Arg(1)), Depth(Arg(2))))

C7_Witness ==
    /\ fpc = "merge"
    /\ BothTrees
    /\ wraps = 0
    /\ IsRF(Arg(1)) /\ IsLeaf(Arg(2))
    /\ Depth(Result) = Depth(Arg(1)) + Depth(Arg(2))
    /\ Depth(Result) > 1 + Larger(Depth(Arg(1)), Depth(Arg(2)))

\* ------------------------------------------------------------ generation claims
Failed == gpc = "failed"

Aborting(i) == raised[i].error.cause \in {"load", "zero"}

NovaSteps == {"detect", "res.fetch", "res.write", "nodes.fetch", "nodes.gen", "nodes.write",
              "both.ensureDir", "both.fetchResources", "both.fetchNodes", "both.gen",
              "both.writeNodes", "both.writeOptions"}

\* C8 as stated: a run of generateResources or generateFromBothEndpoints that
\* fails at any stage has written none of nodes.ts, options.ts, resources.ts.
C8_Original ==
    (Failed /\ entry \in {"generateResources", "generateFromBothEndpoints"}) => written = {}

\* C9 as stated: in every entry point, the Nova detection path included, a load
\* failure or a zero-entity condition aborts the run: it is not caught, it
\* reaches the caller, and the run goes on with no other source or path.
C9_Original ==
    \A i \in 1..Len(raised) :
        Aborting(i) => (~raised[i].caught /\ Failed /\ err = raised[i].error)

\* C9 amended: in generate, in generateFromBothEndpoints called directly and in
\* generateResources on a source that is no Nova base URL, a load failure or a
\* zero-entity condition aborts the run and reaches the caller.  On a Nova base
\* URL the load failure of an endpoint probe only marks the endpoint as missing,
\* and a failure inside the Nova generation chosen after the probes is caught:
\* the run goes on with the OpenAPI generation of the original source, whose
\* own load or zero-entity failure aborts the run and reaches the caller.
C9_AbortOrFallback ==
    \A i \in 1..Len(raised) :
        Aborting(i) =>
            /\ raised[i].caught <=>
                  (entry = "generateResources" /\ srcKind = "novaBase"
                   /\ raised[i].at \in NovaSteps)
            /\ ~raised[i].caught =>
                  (Failed /\ err = raised[i].error /\ i = Len(raised))
            /\ (raised[i].caught /\ raised[i].at # "detect") =>
                  (Len(path) = 2 /\ path[2] = "openapi")

C9_Witness ==
    /\ entry = "generateResources"
    /\ srcKind = "novaBase"
    /\ Len(raised) = 1
    /\ raised[1].caught
    /\ raised[1].error = NoSchemasError
    /\ raised[1].at = "both.gen"
    /\ path = <<"both", "openapi">>
    /\ gpc = "done"
    /\ "resources.ts" \in written

\* C10 as stated: a run that fails for a load failure or for the zero-entity
\* condition hands its caller a typed error that carries the offending source.
C10_Original ==
    (Failed /\ err.cause \in {"load", "zero"}) =>
        (err.kind = "SchemaLoadError" /\ err.source # "")

\* ------------------------------------------------------------ registry claims
\* The calls made since the last clear.
SinceClear ==
    LET cs == {i \in 1..Len(calls) : calls[i].op = "clear"}
        from == IF cs = {} THEN 0 ELSE CHOOSE i \in cs : \A j \in cs : j <= i
    IN SubSeq(calls, from + 1, Len(calls))

SetsOf(n) == {i \in 1..Len(SinceClear) : SinceClear[i].name = n}

LastSetOf(n) == SinceClear[CHOOSE i \in SetsOf(n) : \A j \in SetsOf(n) : j <= i]

\* C11 as stated: while a generateResources invocation runs and after it, the
\* registry shows no entry that another invocation registered.
C11_Original ==
    \A r \in RunIds :
        rpc[r] \in {"registered", "returned"} =>
            \A n \in ResourceNames :
                (hasResource(n) /\ SetsOf(n) # {}) => LastSetOf(n).by \in {0, r}

\* C12: after any setResourceOptions and clear calls, getResourceOptions(n) is
\* the options last set for n since the last clear and undefined if there are
\* none, hasResource(n) holds exactly for the names set since the last clear,
\* and getAllResourceNames lists each of those names once and no other name.
C12_RegistryContents ==
    /\ \A n \in ResourceNames :
          /\ hasResource(n) <=> SetsOf(n) # {}
          /\ getResourceOptions(n) = IF SetsOf(n) = {} THEN Undef ELSE LastSetOf(n).value
    /\ \A n \in ResourceNames :
          Cardinality({i \in 1..Len(getAllResourceNames) : getAllResourceNames[i] = n})
              = IF SetsOf(n) = {} THEN 0 ELSE 1
    /\ \A i \in 1..Len(getAllResourceNames) : getAllResourceNames[i] \in ResourceNames

C12_Witness ==
    /\ Len(calls) = 4
    /\ calls[1].op = "set" /\ calls[1].name = "A"
    /\ calls[2].op = "clear"
    /\ calls[3].op = "set" /\ calls[3].name = "B" /\ calls[3].value.rev = 1
    /\ calls[4].op = "set" /\ calls[4].name = "B" /\ calls[4].value.rev = 2
    /\ \A i \in 1..4 : calls[i].by = 0
    /\ getAllResourceNames = <<"B">>
    /\ getResourceOptions("B") = ResourceOptions("B", 2)
    /\ ~hasResource("A")

\* ------------------------------------------------------------ synthesis claims
Synthesized == spc = "done"

IsEntity(name) ==
    /\ hasSchema(allSchemas, name)
    /\ (isOgmNode(schemaOf(allSchemas, name)) \/ isOgmLink(schemaOf(allSchemas, name)))

IsAlias(name) == hasSchema(allSchemas, name) /\ ~IsEntity(name)

\* The registry with the schema of one name replaced.
WithSchema(all, name, schema) ==
    [i \in 1..Len(all) |-> IF all[i].name = name THEN [name |-> name, schema |-> schema]
                           ELSE all[i]]

\* C13 as stated: type synthesis returns on every finite registry, also when the
\* references between schemas that are no entities form a cycle.
C13_Original == Synthesized => ~result.threw

\* C14 as stated: a reference to a registered Node or Link yields the name of
\* the entity; a reference to any other schema inlines that schema one level
\* deep, so when the inlined schema is itself a reference to a further schema
\* that is no entity, what the further schema holds does not show in the result.
C14_Original ==
    (Synthesized /\ "ref" \in DOMAIN prop) =>
        LET name == refNameOf(prop.ref)
        IN /\ IsEntity(name) => result = Ok(sanitizeName(name))
           /\ (IsAlias(name) /\ "ref" \in DOMAIN schemaOf(allSchemas, name)) =>
                 LET further == refNameOf(schemaOf(allSchemas, name).ref)
                 IN (IsAlias(further) /\ further # name) =>
                       result = jsonSchemaToTsType(prop,
                                   WithSchema(allSchemas, further, TypeOf("boolean")), 1)

\* The expressions of the branches of a union, each synthesized on its own.
BranchTypes(items) == mapTsType(items, allSchemas, 2).types

\* C15 as stated: a union, anyOf or oneOf, yields the distinct expressions of
\* its branches without null among them, and it is nullable exactly when some
\* branch synthesizes to null.
C15_Original ==
    \A k \in {"anyOf", "oneOf"} :
        (Synthesized /\ ~result.threw /\ ~IsUndef(prop) /\ k \in DOMAIN prop
         /\ "ref" \notin DOMAIN prop
         /\ (k = "oneOf" => {"anyOf", "allOf"} \cap DOMAIN prop = {})) =>
            LET types == BranchTypes(prop[k])
                members == uniqueOf(SelectSeq(types, LAMBDA t : t # <<"null">>), {})
                nullable == \E i \in 1..Len(types) : types[i] = <<"null">>
            IN members # <<>> =>
                  result.ts = joinTypes(members, "|")
                              \o (IF nullable THEN <<"|", "null">> ELSE <<>>)

\* ------------------------------------------------------------ generate claims
Extracted == ipc \in {"generating", "done", "legacy.extracted", "legacy.done"}

Returned == ipc = "done"

WrapperOf(schema) == schema._node_schema

Inherited == {"uid", "created_at", "updated_at"}

\* C16 as stated: the entities that extraction returns have pairwise different
\* emitted names, the first occurrence of a name being the one that is kept.
C16_Original ==
    Extracted =>
        \A i, j \in 1..Len(ogmSchemas) : i # j => ogmSchemas[i].name # ogmSchemas[j].name

\* The names and the optional marks of the fields of a declaration, in order.
FieldsOf(decl) ==
    [i \in 1..Len(decl.body) |-> [prop |-> decl.body[i].prop, optional |-> decl.body[i].optional]]

\* The same of the properties of a schema body.
FieldsIn(body) ==
    LET kept == SelectSeq(propertiesOf(body), LAMBDA q : q.name \notin Inherited)
    IN [i \in 1..Len(kept) |-> [prop |-> kept[i].name,
                                optional |-> kept[i].name \notin requiredOf(body)]]

\* C17 as stated: the fields emitted for an entity whose schema object has a
\* _node_schema wrapper are the properties of the wrapper, required as the
\* wrapper says; generate emits them so, and so does the generate of part_002
\* in the schema it hands to compile.
C17_Original ==
    /\ Returned =>
          \A i \in 1..Len(ogmSchemas) :
              ("_node_schema" \in DOMAIN ogmSchemas[i].schema
               /\ ogmSchemas[i].name \notin {<<"Base">>, <<"Link">>}) =>
                  \E k \in 1..Len(output) :
                      /\ output[k].name = ogmSchemas[i].name
                      /\ FieldsOf(output[k]) = FieldsIn(WrapperOf(ogmSchemas[i].schema))
    /\ ipc = "legacy.done" =>
          \A i \in 1..Len(cleaned) :
              \A j \in 1..Len(ogmSchemas) :
                  (ogmSchemas[j].name = cleaned[i].name
                   /\ "_node_schema" \in DOMAIN ogmSchemas[j].schema) =>
                      propertiesOf(cleaned[i].schema)
                          = propertiesOf(removeReferences(WrapperOf(ogmSchemas[j].schema)))

\* The declaration the claim describes for a node entity.
InterfaceOf(e) ==
    LET kept == SelectSeq(propertiesOf(e.schema), LAMBDA q : q.name \notin Inherited)
        fields == [i \in 1..Len(kept) |->
                      [prop |-> kept[i].name,
                       optional |-> kept[i].name \notin requiredOf(e.schema),
                       type |-> jsonSchemaToTsType(kept[i].schema, allSchemas, 1).ts]]
        open == "additionalProperties" \in DOMAIN e.schema
                /\ e.schema.additionalProperties = TRUE
    IN [name |-> e.name, extends |-> "Base",
        body |-> IF open /\ fields # <<>> THEN fields \o <<IndexSignature>> ELSE fields]

RECURSIVE InterfacesOf(_, _)

\* The declarations of the entities es, those with a name in skipped left out.
InterfacesOf(es, skipped) ==
    IF es = <<>> THEN <<>>
    ELSE (IF Head(es).name \in skipped THEN <<>> ELSE <<InterfaceOf(Head(es))>>)
         \o InterfacesOf(Tail(es), skipped)

\* C18 as stated: every node entity has its interface in the output: it extends
\* Base, has one field per property other than uid, created_at and updated_at,
\* in property order, optional exactly when not required, and an index
\* signature exactly when additionalProperties is true and it has a field.
C18_Original ==
    ipc \in {"generating", "done"} =>
        output = InterfacesOf(SubSeq(ogmSchemas, 1, inext - 1), {})

\* C18 amended: the same for every node entity but one whose sanitized name is
\* Base or Link: for that entity generate emits no interface, the declarations
\* of generateBaseInterfaces stand for it.  The properties, the required set and
\* additionalProperties are those of the schema object itself.
C18_Interfaces ==
    ipc \in {"generating", "done"} =>
        output = InterfacesOf(SubSeq(ogmSchemas, 1, inext - 1), {<<"Base">>, <<"Link">>})

C18_Witness ==
    /\ Returned
    /\ Len(ogmSchemas) = 1
    /\ ogmSchemas[1].name = <<"N">>
    /\ "_node_schema" \notin DOMAIN ogmSchemas[1].schema
    /\ Len(propertiesOf(ogmSchemas[1].schema)) = 2
    /\ propertiesOf(ogmSchemas[1].schema)[1].name = "uid"
    /\ Len(output) = 1
    /\ output[1].extends = "Base"
    /\ output[1].body = <<[prop |-> "a", optional |-> FALSE, type |-> <<"string">>], IndexSignature>>

RECURSIVE SplitUnion(_, _)

\* The members of a type expression: its pieces between the | signs.
SplitUnion(ts, member) ==
    IF ts = <<>> THEN {member}
    ELSE IF Head(ts) = "|" THEN {member} \cup SplitUnion(Tail(ts), <<>>)
    ELSE SplitUnion(Tail(ts), Append(member, Head(ts)))

RECURSIVE ElementOf(_)

\* The member without the [] of an array type.
ElementOf(member) ==
    IF member # <<>> /\ member[Len(member)] = "[]"
    THEN ElementOf(SubSeq(member, 1, Len(member) - 1)) ELSE member

BuiltIn == {<<"string">>, <<"number">>, <<"boolean">>, <<"null">>, <<"any">>, <<"any[]">>,
            <<"ResourceEdge<any, any>">>, <<>>}

\* The type names a type expression refers to.
NamesIn(ts) == {ElementOf(m) : m \in SplitUnion(ts, <<>>)} \ BuiltIn

\* C19 as stated: every type name a field of an emitted interface refers to is
\* declared in the same output: an emitted interface, Base, Link or ResourceEdge.
C19_Original ==
    Returned =>
        \A k \in 1..Len(output) : \A i \in 1..Len(output[k].body) :
            NamesIn(output[k].body[i].type)
                \subseteq BaseDeclarations \cup {output[j].name : j \in 1..Len(output)}

\* ------------------------------------------------------------ dedupe claims
Deduplicated == dpc = "done"

\* The names that the lines ls declare with declarations of this kind.
DeclaredIn(ls, kind) == {ls[j].name : j \in {k \in 1..Len(ls) : ls[k].kind = kind}}

\* How many declarations of this kind and name the lines ls hold.
Declares(ls, kind, name) ==
    Cardinality({j \in 1..Len(ls) : ls[j].kind = kind /\ ls[j].name = name})

\* C20 as stated: after the dedupe pass every interface name and every alias
\* name that the input stream declares is declared exactly once in the output.
C20_Original ==
    Deduplicated =>
        \A kind \in {"interface", "alias"} : \A name \in DeclaredIn(lines, kind) :
            Declares(deduped, kind, name) = 1

\* The lines before line n that declare the alias name of line n.
Earlier(n) == {m \in 1..(n - 1) : typeMatch(lines[m]) /\ typeName(lines[m]) = typeName(lines[n])}

\* The lines the loop has passed that declare an alias name for the first time.
FirstAliases == {n \in 1..(lineNo - 1) : n <= Len(lines) /\ typeMatch(lines[n]) /\ Earlier(n) = {}}

RECURSIVE LinesAt(_, _)

\* The lines of the stream at the indexes of ns, in stream order, from line n on.
LinesAt(ns, n) ==
    IF n > Len(lines) THEN <<>>
    ELSE (IF n \in ns THEN <<lines[n]>> ELSE <<>>) \o LinesAt(ns, n + 1)

Inlined == npc = "done"

\* A line of a documentation comment block: it starts with /** or *, or ends with */.
IsCommentLine(line) ==
    /\ line.kind = "text"
    /\ line.tokens # <<>>
    /\ (line.tokens[1] \in {"/**", "*"} \/ line.tokens[Len(line.tokens)] = "*/")

\* C22 as stated: after the inline pass no alias declaration line is left, and
\* no line of code of the output (the interface headers and the comment lines
\* apart) names an alias that was removed.
C22_Original ==
    Inlined =>
        \A k \in 1..Len(inlined) :
            /\ inlined[k].kind # "alias"
            /\ (inlined[k].kind = "text" /\ ~IsCommentLine(inlined[k])) =>
                  \A i \in 1..Len(inlined[k].tokens) : ~mapHas(aliasMap, inlined[k].tokens[i])

\* C23 as stated: every interface declaration line and every documentation
\* comment line of the output is a line of the input, unchanged.
C23_Original ==
    Inlined =>
        \A k \in 1..Len(inlined) :
            (inlined[k].kind = "interface" \/ (inlined[k].kind = "text" /\ IsCommentLine(inlined[k])))
                => \E j \in 1..Len(tsLines) : tsLines[j] = inlined[k]

\* ------------------------------------------------------------ merge claims
Merged == fpc = "merge"

BothLeaves == Len(args) = 2 /\ ~IsUndef(Arg(1)) /\ ~IsUndef(Arg(2)) /\ IsLeaf(Arg(1)) /\ IsLeaf(Arg(2))

\* The objects the call has made.
Made == (Len(heap0) + 1)..Len(heap)

\* C28: merge(a, b, operation) of two leaves is Join{operation, [a, b]}; for any
\* other operands the result is that of merge(a, b) without the argument, and
\* every Join the call makes below the top carries AND.
C28_OperationAtTop ==
    Merged =>
        /\ BothLeaves => Result = JoinV(operation, <<Arg(1), Arg(2)>>)
        /\ ~BothLeaves => Result = MergedValue(args[1], args[2])
        /\ \A r \in Made :
              ("type" \in DOMAIN heap[r] /\ heap[r].type = "join") =>
                  (heap[r].operation = "AND" \/ (BothLeaves /\ r = ret))

C28_Witness ==
    /\ Merged
    /\ operation = "OR"
    /\ Arg(1) = SubresourceV(MatchV("x"), "p" :> MatchV("y"))
    /\ Arg(2) = SubresourceOnlyV("p" :> ResourceV(MatchV("x")))
    /\ Result = SubresourceV(MatchV("x"),
                             "p" :> ResourceV(JoinV("AND", <<MatchV("y"), MatchV("x")>>)))

RECURSIVE Predicates(_, _)
RECURSIVE PredicatesOfAll(_, _)
RECURSIVE PredicatesOfMap(_, _, _)

\* The Match, MatchEdge and Exists leaves of value v in the order they stand
\* in, each with its place: the $subresources keys that lead to it from path p.
Predicates(v, p) ==
    IF IsUndef(v) THEN <<>>
    ELSE IF "type" \in DOMAIN v
    THEN (IF v.type = "empty" THEN <<>>
          ELSE IF v.type = "join" THEN PredicatesOfAll(v.clauses, p)
          ELSE <<[path |-> p, leaf |-> v]>>)
    ELSE (IF "filter" \in DOMAIN v THEN Predicates(v.filter, p) ELSE <<>>)
         \o (IF "subresources" \in DOMAIN v /\ ~IsUndef(v.subresources)
             THEN PredicatesOfMap(v.subresources, KeysInOrder(DOMAIN v.subresources), p)
             ELSE <<>>)

PredicatesOfAll(vs, p) ==
    IF vs = <<>> THEN <<>> ELSE Predicates(Head(vs), p) \o PredicatesOfAll(Tail(vs), p)

PredicatesOfMap(m, ks, p) ==
    IF ks = <<>> THEN <<>>
    ELSE Predicates(m[Head(ks)], Append(p, Head(ks))) \o PredicatesOfMap(m, Tail(ks), p)

\* The leaves of v at place p.
PredicatesAt(v, p) ==
    LET all == Predicates(v, <<>>)
        there == SelectSeq(all, LAMBDA e : e.path = p)
    IN [i \in 1..Len(there) |-> there[i].leaf]

Places == {<<>>} \cup {<<k>> : k \in Keys} \cup {<<k, l>> : k \in Keys, l \in Keys}

\* C29: merge(a, b) loses and invents no predicate: at every place the leaves
\* of the result are the leaves of a there followed by the leaves of b there,
\* and the result has no leaf at any other place.
C29_NoPredicateLost ==
    Merged =>
        /\ \A p \in Places :
              PredicatesAt(Result, p) = PredicatesAt(Arg(1), p) \o PredicatesAt(Arg(2), p)
        /\ \A i \in 1..Len(Predicates(Result, <<>>)) : Predicates(Result, <<>>)[i].path \in Places

C29_Witness ==
    /\ Merged
    /\ Arg(1) = ResourceV(ResourceV(MatchV("y")))
    /\ Arg(2) = JoinV("OR", <<MatchV("x"), MatchEdgeV("e")>>)
    /\ PredicatesAt(Result, <<>>) = <<MatchV("y"), MatchV("x"), MatchEdgeV("e")>>

\* ------------------------------------------------------------ Nova detection claims
NovaRun == entry = "generateResources" /\ srcKind = "novaBase"

\* The generation path the two probes select.
Selected ==
    LET hasResources == env.load["resources"] = "ok"
        hasNodes == env.load["nodes"] = "ok"
    IN IF hasResources /\ hasNodes THEN "both"
       ELSE IF hasResources THEN "resources"
       ELSE IF hasNodes THEN "nodes"
       ELSE "openapi"

\* The files a generation path writes when it succeeds.
FilesOf(p) ==
    CASE p = "both" -> {"nodes.ts"} \cup (IF env.options["resources"] > 0 THEN {"options.ts"} ELSE {})
      [] p = "resources" -> IF env.options["resources"] > 0 THEN {"options.ts"} ELSE {}
      [] p = "nodes" -> {"nodes.ts"}
      [] p = "openapi" -> {"nodes.ts"}
                          \cup (IF env.options["source"] > 0 THEN {"options.ts"} ELSE {})
                          \cup (IF env.proxies > 0 THEN {"resources.ts"} ELSE {})

\* C30 as stated: on a Nova base URL the run takes exactly one generation path,
\* the one the probes select, and the OpenAPI generation of the original source
\* runs only when neither endpoint is available.
C30_Original ==
    (NovaRun /\ gpc \in {"done", "failed"} /\ path # <<>>) =>
        /\ path = <<Selected>>
        /\ gpc = "done" =>
              written = (CASE Selected = "both" -> {"nodes.ts", "options.ts"}
                           [] Selected = "resources" -> {"options.ts"}
                           [] Selected = "nodes" -> {"nodes.ts"}
                           [] OTHER -> written)

\* C30 amended: the run starts with the path the probes select.  When that
\* path is a Nova path and it throws, the catch of generateResources logs the
\* error and the OpenAPI generation of the original source runs as a second
\* path; it runs as the first one only when neither endpoint is available.  A
\* run of one path that returns has written the files of that path: nodes.ts
\* from the nodes endpoint, options.ts when the resources endpoint lists at
\* least one resource.
C30_SelectedThenFallback ==
    (NovaRun /\ path # <<>>) =>
        /\ path[1] = Selected
        /\ Len(path) <= 2
        /\ Len(path) = 2 =>
              /\ path[2] = "openapi"
              /\ Selected # "openapi"
              /\ \E i \in 1..Len(raised) : raised[i].caught /\ raised[i].at # "detect"
        /\ (gpc = "done" /\ Len(path) = 1) => written = FilesOf(Selected)

C30_Witness ==
    /\ NovaRun
    /\ gpc = "done"
    /\ path = <<"both">>
    /\ written = {"nodes.ts", "options.ts"}

\* ------------------------------------------------------------ C24
\* A name with its case and its underscores taken away.
Folded(name) == toLowerCase(SelectSeq(name, LAMBDA c : c # "_"))

RECURSIVE FirstNamed(_, _)

\* The first field, in property order, named as the type is, case and underscores ignored.
FirstNamed(props, type) ==
    IF props = <<>> THEN <<>>
    ELSE IF Folded(Head(props).name) = Folded(type) THEN Head(props).name
    ELSE FirstNamed(Tail(props), type)

\* The pivotKey the rule gives a resource whose candidate pivot type is type.
RuledKey(r, type) ==
    LET info == infoOf(r.schema._resource)
        props == IF "properties" \in DOMAIN r.schema THEN r.schema.properties ELSE <<>>
    IN IF "pivot_key" \in DOMAIN info /\ info.pivot_key # <<>> THEN info.pivot_key
       ELSE IF FirstNamed(props, type) # <<>> THEN FirstNamed(props, type)
       ELSE <<"uid">>

\* C24: the pivotKey of every resource entity is its explicit metadata value
\* when there is one, else its first field, in property order, whose name is
\* the candidate pivot type's name with case and underscores ignored, else 'uid'.
C24_Original ==
    ppc \in {"metadata", "legacy"} => pivot.pivotKey = RuledKey(resource, pivot.pivotType)


\* ------------------------------------------------------------ C25
\* The assembly of the document is over.
Assembled == apc \in {"returned", "written", "failed"}

\* The schema entries that carry a resource marker, and those of them marked proxy.
MarkedEntries == SelectSeq(adoc.schemas, LAMBDA e : "_resource" \in DOMAIN e.schema)

Proxies == SelectSeq(MarkedEntries, LAMBDA e : e.schema._resource.type = "proxy")

\* The names the entries are declared under, and the names of the declarations.
DeclaredNames(entries) ==
    [i \in 1..Len(entries) |-> SelectSeq(entries[i].name, LAMBDA c : c \notin NonWord)]

NamesOf(types) == [i \in 1..Len(types) |-> types[i].name]

\* A proxy entry has a mount that is null.
NullMount ==
    \E i \in 1..Len(Proxies) :
        LET m == Proxies[i].schema._resource
        IN /\ "info" \in DOMAIN m
           /\ "mounts" \in DOMAIN m.info
           /\ \E j \in 1..Len(m.info.mounts) : m.info.mounts[j].value = Null

\* C25: the assembly declares exactly one resource for each schema entry that
\* carries a resource marker, whatever the type of the marker, and none for an
\* entry without a marker.
C25_Original == Assembled => NamesOf(abstractTypes) = DeclaredNames(MarkedEntries)

\* C25, amended: the assembly declares exactly one resource for each schema
\* entry whose marker has the type proxy, in the order of the entries, and none
\* for any other entry; with no proxy entry it returns early, and a null mount
\* of a proxy entry ends it with a TypeError and no declaration.
C25_ProxyDeclarations ==
    /\ apc = "written" =>
          Proxies # <<>> /\ ~NullMount /\ NamesOf(abstractTypes) = DeclaredNames(Proxies)
    /\ apc = "returned" => Proxies = <<>> /\ abstractTypes = <<>>
    /\ apc = "failed" => NullMount /\ abstractTypes = <<>>

\* A proxy entry and an entry marked create were assembled into one declaration.
C25_Witness ==
    /\ apc = "written"
    /\ Len(abstractTypes) = 1
    /\ Len(MarkedEntries) = 2
    /\ \E i \in 1..2 : MarkedEntries[i].schema._resource.type = "create"

\* ------------------------------------------------------------ C26
\* The resource infos the routes of the document declare, in their order.
InfosOf(xNovaResource) ==
    IF "array" \in DOMAIN xNovaResource THEN xNovaResource.array
    ELSE IF "info" \in DOMAIN xNovaResource THEN <<xNovaResource.info>>
    ELSE <<xNovaResource>>

RECURSIVE RouteInfos(_)

RouteInfos(routes) ==
    IF routes = <<>> THEN <<>> ELSE InfosOf(Head(routes)) \o RouteInfos(Tail(routes))

\* A required metadata field is not there.
Lacking(info) == \E k \in {"name", "pivot_key", "pivot_type"} : k \notin DOMAIN info

Named(info) == "name" \in DOMAIN info

KeysOf(m) == {m[i].key : i \in 1..Len(m)}

\* C26: a resource whose marker lacks a required metadata field is in no output
\* of the run (the registry, the options table, the declarations), and every
\* well-formed resource of the run is in them.
C26_Original ==
    Assembled =>
        /\ \A i \in 1..Len(RouteInfos(adoc.routes)) :
              LET info == RouteInfos(adoc.routes)[i]
              IN Named(info) =>
                    /\ info.name \in KeysOf(registered) <=> ~Lacking(info)
                    /\ info.name \in KeysOf(resourceOptions) <=> ~Lacking(info)
        /\ \A i \in 1..Len(Proxies) :
              LET declared == \E j \in 1..Len(abstractTypes) :
                                 abstractTypes[j].name = DeclaredNames(Proxies)[i]
              IN declared <=> ~Lacking(infoOf(Proxies[i].schema._resource))

\* ------------------------------------------------------------ C27
\* A field that is there and is a string that is not empty.
NonEmpty(o, k) == k \in DOMAIN o /\ "string" \in DOMAIN o[k] /\ o[k].string # <<>>

\* A field that is there and is an object.
ObjectValued(o, k) == k \in DOMAIN o /\ "entries" \in DOMAIN o[k]

\* Every mount has its three booleans and its four strings.
MountsComplete(mounts) ==
    \A i \in 1..Len(mounts) :
        LET mount == mounts[i].value
        IN /\ \A k \in {"is_resource", "is_foreign", "is_array"} :
                 k \in DOMAIN mount /\ "boolean" \in DOMAIN mount[k]
           /\ \A k \in {"pivot_type", "relation_type", "relation_name", "relation_model"} :
                 k \in DOMAIN mount /\ "string" \in DOMAIN mount[k]

Complete(o) ==
    /\ "info" \in DOMAIN o
    /\ NonEmpty(o.info, "name") /\ NonEmpty(o.info, "pivot_key") /\ NonEmpty(o.info, "pivot_type")
    /\ ObjectValued(o.info, "mounts") /\ ObjectValued(o.info, "computed")
    /\ MountsComplete(o.info.mounts.entries)

\* C27: validateResourceOptions returns true exactly for the options that have
\* an info with non-empty name, pivot_key and pivot_type, object-valued mounts
\* and computed, and mounts that each have their booleans and strings; for any
\* other options it returns false, does not throw and leaves the registry as it was.
C27_Original ==
    vpc \in {"returned", "threw"} =>
        /\ ~verdict.threw
        /\ verdict.value <=> Complete(candidate)
        /\ registered = <<>>

\* validateResourceOptions returns, and then true exactly for the complete options.
ReturnsAsStated == vpc = "returned" => (verdict.value <=> Complete(candidate))

====
